---- MODULE Spec2Model ----
(***************************************************************************)
(* Bulletproofs++ (distributed-lab/bulletproofs): Fiat-Shamir transcript,  *)
(* weight norm linear argument, arithmetic circuit argument and reciprocal *)
(* range proof.                                                            *)
(*                                                                         *)
(* Scalars are integers modulo the group order.  bn256.Order is a 254-bit  *)
(* prime; the development uses the prime Q, the largest one whose products *)
(* stay below 2^31.  bn256.G1 is a cyclic                                  *)
(* group of that order, so a point is represented by its discrete          *)
(* logarithm: Add is addition and ScalarMult multiplication modulo Q.      *)
(* A nil *big.Int (the result of ModInverse on a non-invertible argument)  *)
(* is the value NIL.                                                       *)
(***************************************************************************)
EXTENDS Integers, Sequences, FiniteSets, TLC

VARIABLES oracle, fsP, fsV, pc, public, private, Com, proof, pw, vw, err,
          rangeP, rangeV

vars == <<oracle, fsP, fsV, pc, public, private, Com, proof, pw, vw, err,
          rangeP, rangeV>>

(***************************************************************************)
(* Bounds of the development.                                              *)
(***************************************************************************)
\* number of Keccak instances (random oracles) the model quantifies over
MaxOracle == 2
\* calls made on one transcript in the transcript specification
MaxCalls == 4
\* largest scalar handed to AddNumber in the transcript specification
MaxNumber == 3
\* longest vectors handed to ProveWNLA on its own: 0..MaxVecLen
MaxVecLen == 8
\* seeds of the random source: 0..MaxSeed
MaxSeed == 2
\* witnesses per statement: 1..MaxWitness
MaxWitness == 2

(***************************************************************************)
(* math_scalars.go                                                         *)
(***************************************************************************)
Q == 46337

NIL == -1

zeroIfNil(x) == IF x = NIL THEN 0 ELSE x

bint(v) == v % Q

bbool(v) == IF v THEN bint(1) ELSE bint(0)

add(x, y) == (zeroIfNil(x) + zeroIfNil(y)) % Q

sub(x, y) == (zeroIfNil(x) - zeroIfNil(y)) % Q

mul(x, y) == IF x = NIL \/ y = NIL THEN bint(0) ELSE (x * y) % Q

minus(x) == sub(bint(0), x)

\* acc * b^y: the bits of y from the lowest, b squared at every bit.  The
\* test on acc keeps the evaluation shallow: the product so far is
\* computed before the next bit is looked at.
RECURSIVE ExpFrom(_, _, _)
ExpFrom(acc, b, y) ==
    IF y = 0 \/ acc < 0 THEN acc
    ELSE ExpFrom(IF y % 2 = 1 THEN (acc * b) % Q ELSE acc, (b * b) % Q, y \div 2)

\* big.Int.Exp(x, y, Order) for y >= 0, by square and multiply
Exp(x, y) == ExpFrom(1 % Q, x % Q, y)

\* big.Int.ModInverse(x, Order): nil when x has no inverse
inv(x) == IF zeroIfNil(x) % Q = 0 THEN NIL ELSE Exp(x % Q, Q - 2)

pow(x, y) == IF y < 0 THEN Exp(inv(x), -y) ELSE Exp(x, y)

RECURSIVE powerOfTwoFrom(_, _)
powerOfTwoFrom(p2, x) == IF p2 < x THEN powerOfTwoFrom(p2 * 2, x) ELSE p2

powerOfTwo(x) == powerOfTwoFrom(1, x)

(***************************************************************************)
(* bn256.G1, represented by discrete logarithms                            *)
(***************************************************************************)
Infinity == 0

PointAdd(a, b) == (a + b) % Q

ScalarMult(a, k) == (a * (zeroIfNil(k) % Q)) % Q

(***************************************************************************)
(* math_vectors.go.  Go slices are indexed from 0, sequences from 1.       *)
(***************************************************************************)
Max(a, b) == IF a >= b THEN a ELSE b

Min(a, b) == IF a <= b THEN a ELSE b

\* the loops `for len(a) < len(b) { a = append(a, bint(0)) }`
PadTo(a, n) == [i \in 1..Max(Len(a), n) |-> IF i <= Len(a) THEN a[i] ELSE bint(0)]

SliceFrom(a, k) == [i \in 1..Max(Len(a) - k, 0) |-> a[i + k]]

SliceTo(a, k) == [i \in 1..Min(Len(a), k) |-> a[i]]

zeroVector(n) == [i \in 1..n |-> 0]

oneVector(n) == [i \in 1..n |-> 1]

vectorAdd(a, b) ==
    LET n == Max(Len(a), Len(b))
        a1 == PadTo(a, n)
        b1 == PadTo(b, n)
    IN  [i \in 1..n |-> add(a1[i], b1[i])]

vectorSub(a, b) ==
    LET n == Max(Len(a), Len(b))
        a1 == PadTo(a, n)
        b1 == PadTo(b, n)
    IN  [i \in 1..n |-> sub(a1[i], b1[i])]

vectorMulOnScalar(a, c) == [i \in 1..Len(a) |-> mul(a[i], c)]

\* the sum f[lo] + .. + f[hi] of the accumulation loops; addition modulo
\* the order is associative, and the range is halved to keep the
\* evaluation shallow
RECURSIVE SumRange(_, _, _)
SumRange(f, lo, hi) ==
    IF lo > hi THEN 0
    ELSE IF lo = hi THEN add(0, f[lo])
         ELSE add(SumRange(f, lo, (lo + hi) \div 2),
                  SumRange(f, (lo + hi) \div 2 + 1, hi))

SumTo(f, n) == SumRange(f, 1, n)

vectorMul(a, b) ==
    LET n == Max(Len(a), Len(b))
        a1 == PadTo(a, n)
        b1 == PadTo(b, n)
    IN  SumTo([i \in 1..n |-> mul(a1[i], b1[i])], n)

\* exp starts at mu and is multiplied by mu after every entry: entry i of
\* the Go slice (i from 0) has weight mu^(i+1)
weightVectorMul(a, b, mu) ==
    LET n == Max(Len(a), Len(b))
        a1 == PadTo(a, n)
        b1 == PadTo(b, n)
    IN  SumTo([i \in 1..n |-> mul(mul(a1[i], b1[i]), Exp(zeroIfNil(mu), i))], n)

RECURSIVE PointSumRange(_, _, _)
PointSumRange(f, lo, hi) ==
    IF lo > hi THEN Infinity
    ELSE IF lo = hi THEN PointAdd(Infinity, f[lo])
         ELSE PointAdd(PointSumRange(f, lo, (lo + hi) \div 2),
                       PointSumRange(f, (lo + hi) \div 2 + 1, hi))

PointSumTo(f, n) == PointSumRange(f, 1, n)

\* only a is padded: entries of a beyond len(g) are never read
vectorPointScalarMul(g, a) ==
    IF Len(g) = 0 THEN Infinity
    ELSE LET a1 == PadTo(a, Len(g))
         IN  PointSumTo([i \in 1..Len(g) |-> ScalarMult(g[i], a1[i])], Len(g))

\* an addition that stops at the end of the shorter vector
vectorPointsAdd_Truncating(a, b) ==
    [i \in 1..Min(Len(a), Len(b)) |-> PointAdd(a[i], b[i])]

vectorPointsAdd(a, b) ==
    LET n == Max(Len(a), Len(b))
        a1 == [i \in 1..n |-> IF i <= Len(a) THEN a[i] ELSE Infinity]
        b1 == [i \in 1..n |-> IF i <= Len(b) THEN b[i] ELSE Infinity]
    IN  [i \in 1..n |-> PointAdd(a1[i], b1[i])]

vectorPointMulOnScalar(g, a) == [i \in 1..Len(g) |-> ScalarMult(g[i], a)]

\* res = a*b[0] || a*b[1] || ...
vectorTensorMul(a, b) ==
    [k \in 1..(Len(a) * Len(b)) |->
        mul(a[((k - 1) % Len(a)) + 1], b[((k - 1) \div Len(a)) + 1])]

e(v, a) == [i \in 1..a |-> Exp(v, i - 1)]

hadamardMul(a, b) == [i \in 1..Len(a) |-> mul(a[i], b[i])]

\* the element of a set of one element: The({ F(x) : x \in {v} }) is F
\* applied to the value of v, which is computed once
The(S) == CHOOSE r \in S : TRUE

(***************************************************************************)
(* fs.go: the Keccak transcript.                                           *)
(*                                                                         *)
(* crypto.KeccakState is a sponge: Write folds bytes into a running state  *)
(* and Sum reads a digest without changing it.  The sponge is modelled by  *)
(* a running value folded byte by byte; oracle selects the instance of the *)
(* function.  Keccak256(..) mod Order takes the values 0 and -j (j < 16),  *)
(* on which the arguments divide by zero, with probability below 2^-249;   *)
(* the modelled digest ranges over the other scalars.                      *)
(* The field log is a history of the calls made on the transcript.         *)
(***************************************************************************)
SpongeMul == 31

SpongeAdd == 7

ChallengeSpace == Q - 16

\* big.Int.Bytes: big-endian bytes of the absolute value, no leading zero
RECURSIVE Bytes(_)
Bytes(n) == IF n = 0 THEN <<>> ELSE Append(Bytes(n \div 256), n % 256)

Abs(n) == IF n < 0 THEN -n ELSE n

scalarTo32Byte(s) ==
    LET arr == Bytes(Abs(s))
    IN  IF Len(arr) >= 32 THEN SubSeq(arr, 1, 32)
        ELSE [i \in 1..(32 - Len(arr)) |-> 0] \o arr

\* G1.Marshal: the 64 bytes of the two affine coordinates, an injective
\* encoding of the point (the point at infinity is 64 zero bytes)
Marshal(p) == scalarTo32Byte(p) \o scalarTo32Byte((p * 3) % Q)

\* KeccakState.Write of bytes[lo..hi], byte after byte.  The range is
\* halved to keep the evaluation shallow, and the test on s orders it: the
\* first half is folded in before the second half is looked at.
RECURSIVE WriteRange(_, _, _, _)
WriteRange(state, bytes, lo, hi) ==
    IF lo > hi THEN state
    ELSE IF lo = hi
         THEN (state * SpongeMul + bytes[lo] + SpongeAdd) % ChallengeSpace
         ELSE LET mid == (lo + hi) \div 2
                  s == WriteRange(state, bytes, lo, mid)
              IN  IF s >= 0 THEN WriteRange(s, bytes, mid + 1, hi) ELSE s

Write(state, bytes) == WriteRange(state, bytes, 1, Len(bytes))

\* KeccakState.Sum(nil) reduced modulo the order
SumModOrder(state) == 1 + state

\* Keccak256 of a byte string, reduced modulo the order
Keccak256ModOrder(bytes) == SumModOrder(Write(oracle, bytes))

NewKeccakFS == [state |-> oracle, counter |-> 0, log |-> <<>>]

AddPoint(k, p) ==
    [k EXCEPT !.state = Write(k.state, Marshal(p)),
              !.log = Append(k.log, [op |-> "AddPoint", arg |-> p,
                                     wrote |-> Marshal(p)])]

AddNumber(k, v) ==
    [k EXCEPT !.state = Write(k.state, scalarTo32Byte(v)),
              !.log = Append(k.log, [op |-> "AddNumber", arg |-> v,
                                     wrote |-> scalarTo32Byte(v)])]

\* GetChallenge with the counter kept in one place for all transcripts
GetChallengeFS_SharedCounter(k) ==
    LET c == fsP.counter + fsV.counter + 1
        blk == scalarTo32Byte(bint(c))
        st == Write(k.state, blk)
    IN  [k EXCEPT !.counter = k.counter + 1,
                  !.state = st,
                  !.log = Append(k.log, [op |-> "GetChallenge",
                                         arg |-> SumModOrder(st),
                                         wrote |-> blk])]

\* GetChallenge that counts but does not absorb the counter
GetChallengeFS_NoAbsorb(k) ==
    [k EXCEPT !.counter = k.counter + 1,
              !.log = Append(k.log, [op |-> "GetChallenge",
                                     arg |-> SumModOrder(k.state),
                                     wrote |-> <<>>])]

\* GetChallenge that absorbs the counter before incrementing it
GetChallengeFS_PostIncrement(k) ==
    LET blk == scalarTo32Byte(bint(k.counter))
        st == Write(k.state, blk)
    IN  [k EXCEPT !.counter = k.counter + 1,
                  !.state = st,
                  !.log = Append(k.log, [op |-> "GetChallenge",
                                         arg |-> SumModOrder(st),
                                         wrote |-> blk])]

\* the transcript after GetChallenge
GetChallengeFS(k) ==
    LET k1 == [k EXCEPT !.counter = k.counter + 1]
        blk == scalarTo32Byte(bint(k1.counter))
        k2 == [k1 EXCEPT !.state = Write(k1.state, blk)]
    IN  [k2 EXCEPT !.log = Append(k.log, [op |-> "GetChallenge",
                                          arg |-> SumModOrder(k2.state),
                                          wrote |-> blk])]

\* the scalar GetChallenge returns
GetChallenge(k) == SumModOrder(GetChallengeFS(k).state)

(***************************************************************************)
(* math_rand.go and NewWeightNormLinearPublic.  crypto/rand is a stream of *)
(* values fixed by a seed; draw i of the stream of seed 0 is the smallest  *)
(* value the sampler can return.                                           *)
(***************************************************************************)
RandMix(seed, i) == (seed * 7919 + i * 10473 + seed * i * 311 + seed * seed * 97) % Q

\* bn256.RandomG1: k*g for a k in [1, Order)
MustRandPoint(seed, i) == 1 + (RandMix(seed + 1, 2 * i + 1) % (Q - 1))

\* rand.Int(rand.Reader, bn256.Order): a value in [0, Order)
MustRandScalar(seed, i) == IF seed = 0 THEN 0 ELSE RandMix(seed, 2 * i)

\* the draws are made in the order gvec, hvec, c, ro, G
NewWeightNormLinearPublic(lLen, nLen, seed) ==
    LET gvec == [i \in 1..nLen |-> MustRandPoint(seed, i)]
        hvec == [i \in 1..lLen |-> MustRandPoint(seed, nLen + i)]
        c == [i \in 1..lLen |-> MustRandScalar(seed, nLen + lLen + i)]
        ro == MustRandScalar(seed, nLen + 2 * lLen + 1)
    IN  [G |-> MustRandPoint(seed, nLen + 2 * lLen + 2),
         GVec |-> gvec,
         HVec |-> hvec,
         C |-> c,
         Ro |-> ro,
         Mu |-> mul(ro, ro)]

(***************************************************************************)
(* wnla.go                                                                 *)
(***************************************************************************)
Commit(p, l, n) ==
    LET v_ == add(vectorMul(p.C, l), weightVectorMul(n, n, p.Mu))
    IN  PointAdd(PointAdd(ScalarMult(p.G, v_), vectorPointScalarMul(p.HVec, l)),
                 vectorPointScalarMul(p.GVec, n))

\* reduceVector and reducePoints: the entries at even and at odd Go indices
\* the even-indexed half without the last entry of a vector of odd length
reduceVector0_Floor(v) == [i \in 1..(Len(v) \div 2) |-> v[2 * i - 1]]

reduceVector0(v) == [i \in 1..((Len(v) + 1) \div 2) |-> v[2 * i - 1]]

reduceVector1(v) == [i \in 1..(Len(v) \div 2) |-> v[2 * i]]

\* the base case taken one scalar too late
ProveWNLAIsBase_Inclusive(l, n) == Len(l) + Len(n) <= 6

\* the base case taken for fewer than four scalars only
ProveWNLAIsBase_Four(l, n) == Len(l) + Len(n) < 4

\* the test of ProveWNLA for sending l, n in the clear
ProveWNLAIsBase(l, n) == Len(l) + Len(n) < 6

\* one level of ProveWNLA that recurses: the points X and R it sends, the
\* transcript after the challenge and the arguments of the recursive call
ProveWNLARound(pub, C0, fs, l, n) ==
    LET roinv == inv(pub.Ro)
        c0 == reduceVector0(pub.C)
        c1 == reduceVector1(pub.C)
        l0 == reduceVector0(l)
        l1 == reduceVector1(l)
        n0 == reduceVector0(n)
        n1 == reduceVector1(n)
        G0 == reduceVector0(pub.GVec)
        G1 == reduceVector1(pub.GVec)
        H0 == reduceVector0(pub.HVec)
        H1 == reduceVector1(pub.HVec)
        mu2 == mul(pub.Mu, pub.Mu)
        vx == add(mul(weightVectorMul(n0, n1, mu2), mul(2, roinv)),
                  add(vectorMul(c0, l1), vectorMul(c1, l0)))
        vr == add(weightVectorMul(n1, n1, mu2), vectorMul(c1, l1))
        X == PointAdd(PointAdd(PointAdd(PointAdd(
                 ScalarMult(pub.G, vx),
                 vectorPointScalarMul(H0, l1)),
                 vectorPointScalarMul(H1, l0)),
                 vectorPointScalarMul(G0, vectorMulOnScalar(n1, pub.Ro))),
                 vectorPointScalarMul(G1, vectorMulOnScalar(n0, roinv)))
        R == PointAdd(PointAdd(
                 ScalarMult(pub.G, vr),
                 vectorPointScalarMul(H1, l1)),
                 vectorPointScalarMul(G1, n1))
        \* what follows the challenge y drawn from the transcript fs1
        Fold(XR, fs1, y) ==
            LET H_ == vectorPointsAdd(H0, vectorPointMulOnScalar(H1, y))
                G_ == vectorPointsAdd(vectorPointMulOnScalar(G0, pub.Ro),
                                      vectorPointMulOnScalar(G1, y))
                c_ == vectorAdd(c0, vectorMulOnScalar(c1, y))
                l_ == vectorAdd(l0, vectorMulOnScalar(l1, y))
                n_ == vectorAdd(vectorMulOnScalar(n0, roinv), vectorMulOnScalar(n1, y))
                next == [G |-> pub.G, GVec |-> G_, HVec |-> H_, C |-> c_,
                         Ro |-> pub.Mu, Mu |-> mu2]
            \* the commitment handed down is public.Commit(l_, n_), taken
            \* under the parameters of this level
            IN  The({ [X |-> XR[1], R |-> XR[2], y |-> y, fs |-> GetChallengeFS(fs1),
                      public |-> next, Com |-> Commit(pub, ln[1], ln[2]),
                      l |-> ln[1], n |-> ln[2]]
                    : ln \in {<<l_, n_>>} })
    IN  The({ The({ The({ Fold(XR, fs1, y)
                        : y \in {GetChallenge(fs1)} })
                  : fs1 \in {AddNumber(AddNumber(AddPoint(AddPoint(AddPoint(fs, C0), XR[1]), XR[2]),
                              bint(Len(pub.HVec))), bint(Len(pub.GVec)))} })
            : XR \in {<<X, R>>} })

\* the first test of VerifyWNLA
VerifyWNLALengthOk(prf) == Len(prf.X) = Len(prf.R)

\* a base case that compares the recomputed commitment with itself
VerifyWNLABaseOk_SelfCompare(pub, prf, C0) ==
    Marshal(Commit(pub, prf.L, prf.N)) = Marshal(Commit(pub, prf.L, prf.N))

\* a base case that compares nothing
VerifyWNLABaseOk_NoCheck(pub, prf, C0) == TRUE

\* the comparison VerifyWNLA makes when no round is left
VerifyWNLABaseOk(pub, prf, C0) == Marshal(Commit(pub, prf.L, prf.N)) = Marshal(C0)

\* one level of VerifyWNLA that recurses
VerifyWNLARound(pub, prf, C0, fs) ==
    LET c0 == reduceVector0(pub.C)
        c1 == reduceVector1(pub.C)
        G0 == reduceVector0(pub.GVec)
        G1 == reduceVector1(pub.GVec)
        H0 == reduceVector0(pub.HVec)
        H1 == reduceVector1(pub.HVec)
        \* what follows the challenge y drawn from the transcript fs1
        Fold(fs1, y) ==
            LET H_ == vectorPointsAdd(H0, vectorPointMulOnScalar(H1, y))
                G_ == vectorPointsAdd(vectorPointMulOnScalar(G0, pub.Ro),
                                      vectorPointMulOnScalar(G1, y))
                c_ == vectorAdd(c0, vectorMulOnScalar(c1, y))
                Com_ == PointAdd(PointAdd(C0, ScalarMult(prf.X[1], y)),
                                 ScalarMult(prf.R[1], sub(mul(y, y), bint(1))))
            IN  [y |-> y, fs |-> GetChallengeFS(fs1),
                 public |-> [G |-> pub.G, GVec |-> G_, HVec |-> H_, C |-> c_,
                             Ro |-> pub.Mu, Mu |-> mul(pub.Mu, pub.Mu)],
                 proof |-> [R |-> SliceFrom(prf.R, 1), X |-> SliceFrom(prf.X, 1),
                            L |-> prf.L, N |-> prf.N],
                 Com |-> Com_]
    IN  The({ The({ Fold(fs1, y)
                  : y \in {GetChallenge(fs1)} })
            : fs1 \in {AddNumber(AddNumber(AddPoint(AddPoint(AddPoint(fs, C0), prf.X[1]), prf.R[1]),
                        bint(Len(pub.HVec))), bint(Len(pub.GVec)))} })

(***************************************************************************)
(* The transcript on its own: a transcript fsP driven by arbitrary calls   *)
(* and a second transcript fsV, created any number of times, on which the  *)
(* calls of fsP are replayed in order.                                     *)
(***************************************************************************)
None == [none |-> TRUE]

FSPoints == {5}

FSNumbers == 1..MaxNumber

InitFS ==
    /\ oracle \in 0..(MaxOracle - 1)
    /\ fsP = NewKeccakFS
    /\ fsV = NewKeccakFS
    /\ pc = "fs"
    /\ public = None /\ private = None /\ Com = None /\ proof = None
    /\ pw = None /\ vw = None /\ err = None
    /\ rangeP = None /\ rangeV = None

FSRest == UNCHANGED <<rangeP, rangeV, oracle, pc, public, private, Com, proof, pw, vw, err>>

FSAddPoint ==
    /\ Len(fsP.log) < MaxCalls
    /\ \E p \in FSPoints : fsP' = AddPoint(fsP, p)
    /\ UNCHANGED fsV /\ FSRest

FSAddNumber ==
    /\ Len(fsP.log) < MaxCalls
    /\ \E v \in FSNumbers : fsP' = AddNumber(fsP, v)
    /\ UNCHANGED fsV /\ FSRest

FSGetChallenge ==
    /\ Len(fsP.log) < MaxCalls
    /\ fsP' = GetChallengeFS(fsP)
    /\ UNCHANGED fsV /\ FSRest

FSNew ==
    /\ fsV.log # <<>>
    /\ fsV' = NewKeccakFS
    /\ UNCHANGED fsP /\ FSRest

\* the next call of fsP that fsV has not made yet, made on fsV
FSReplay ==
    /\ Len(fsV.log) < Len(fsP.log)
    /\ LET c == fsP.log[Len(fsV.log) + 1]
       IN  fsV' = CASE c.op = "AddPoint" -> AddPoint(fsV, c.arg)
                    [] c.op = "AddNumber" -> AddNumber(fsV, c.arg)
                    [] OTHER -> GetChallengeFS(fsV)
    /\ UNCHANGED fsP /\ FSRest

NextFS == FSAddPoint \/ FSAddNumber \/ FSGetChallenge \/ FSNew \/ FSReplay

SpecFS == InitFS /\ [][NextFS]_vars

(***************************************************************************)
(* Properties of the transcript                                            *)
(***************************************************************************)
IsChallenge(c) == c.op = "GetChallenge"

\* the call c without what it returned
CallOf(c) == IF IsChallenge(c) THEN <<c.op>> ELSE <<c.op, c.arg>>

SameCallsUpTo(i) == \A j \in 1..i : CallOf(fsP.log[j]) = CallOf(fsV.log[j])

RECURSIVE ChallengesUpTo(_, _)
ChallengesUpTo(log, i) ==
    IF i = 0 THEN 0
    ELSE ChallengesUpTo(log, i - 1) + (IF IsChallenge(log[i]) THEN 1 ELSE 0)

\* the bytes written to the sponge by the first i calls of a transcript
RECURSIVE WrittenUpTo(_, _)
WrittenUpTo(log, i) ==
    IF i = 0 THEN <<>> ELSE WrittenUpTo(log, i - 1) \o log[i].wrote

DistinctOn(k) ==
    /\ k.counter = ChallengesUpTo(k.log, Len(k.log))
    /\ \A i \in 1..(Len(k.log) - 1) :
          (IsChallenge(k.log[i]) /\ IsChallenge(k.log[i + 1]))
             => /\ WrittenUpTo(k.log, i) # WrittenUpTo(k.log, i + 1)
                /\ k.log[i].arg # k.log[i + 1].arg

be32(v) ==
    [i \in 1..32 |->
        CASE i = 32 -> v % 256
          [] i = 31 -> (v \div 256) % 256
          [] i = 30 -> (v \div 65536) % 256
          [] i = 29 -> (v \div 16777216) % 256
          [] OTHER -> 0]

\* everything absorbed by the first i calls: the items of the caller and
\* the counters 1, 2, .. of the challenges, in call order
RECURSIVE AbsorbedUpTo(_, _)
AbsorbedUpTo(log, i) ==
    IF i = 0 THEN <<>>
    ELSE AbsorbedUpTo(log, i - 1) \o
         (CASE log[i].op = "AddNumber" -> be32(log[i].arg)
            [] log[i].op = "AddPoint" -> Marshal(log[i].arg)
            [] OTHER -> be32(ChallengesUpTo(log, i)))

FSScalarAdd ==
    /\ Len(fsP.log) < MaxCalls + 1
    /\ \E v \in FSNumbers : fsP' = AddNumber(fsP, v)
    /\ UNCHANGED fsV /\ FSRest

FSScalarChallenge ==
    /\ Len(fsP.log) < MaxCalls + 1
    /\ fsP' = GetChallengeFS(fsP)
    /\ UNCHANGED fsV /\ FSRest

NextFSScalars == FSScalarAdd \/ FSScalarChallenge

SpecFSScalars == InitFS /\ [][NextFSScalars]_vars

\* what the caller absorbed in the first i calls: the scalars handed to
\* AddNumber, in call order
RECURSIVE CallerAbsorbedUpTo(_, _)
CallerAbsorbedUpTo(log, i) ==
    IF i = 0 THEN <<>>
    ELSE CallerAbsorbedUpTo(log, i - 1) \o
         (IF log[i].op = "AddNumber" THEN be32(log[i].arg) ELSE <<>>)

\* C11: a challenge is the hash of exactly the scalars the caller absorbed,
\* in order, and nothing else: after AddNumber(1), AddNumber(2) the
\* challenge is Keccak256(be32(1) || be32(2)) mod q, and after a further
\* AddNumber(3) the next one is Keccak256(be32(1) || be32(2) || be32(3))
\* mod q.
ChallengeHashesAbsorbedOnly ==
    /\ \A i \in 1..Len(fsP.log) :
          IsChallenge(fsP.log[i])
             => fsP.log[i].arg = Keccak256ModOrder(CallerAbsorbedUpTo(fsP.log, i))
    /\ (/\ Len(fsP.log) >= 3
        /\ CallOf(fsP.log[1]) = <<"AddNumber", 1>>
        /\ CallOf(fsP.log[2]) = <<"AddNumber", 2>>
        /\ IsChallenge(fsP.log[3]))
          => fsP.log[3].arg = Keccak256ModOrder(be32(1) \o be32(2))
    /\ (/\ Len(fsP.log) >= 5
        /\ CallOf(fsP.log[1]) = <<"AddNumber", 1>>
        /\ CallOf(fsP.log[2]) = <<"AddNumber", 2>>
        /\ IsChallenge(fsP.log[3])
        /\ CallOf(fsP.log[4]) = <<"AddNumber", 3>>
        /\ IsChallenge(fsP.log[5]))
          => fsP.log[5].arg = Keccak256ModOrder(be32(1) \o be32(2) \o be32(3))

(***************************************************************************)
(* The weight norm linear argument: ProveWNLA on Commit(l, n) with a fresh *)
(* transcript, one recursion level per step, then VerifyWNLA with a fresh  *)
(* transcript on the proof and the commitment, or on a modification of     *)
(* them.                                                                   *)
(***************************************************************************)
ErrNil == "nil"

ErrLength == "invalid length for R and X vectors: should be equal"

ErrVerify == "failed to verify proof"

\* |l| and |n| of the statements
WNLASizes == {<<1, 1>>, <<2, 2>>, <<3, 2>>, <<4, 2>>, <<3, 3>>, <<5, 3>>, <<8, 4>>}

\* the vectors of TestWNLA, scaled
TestL == <<4, 5, 10, 1, 99, 35, 1, 15>>

TestN == <<1, 3, 42, 14>>

WNLAWitness(lLen, nLen, w) ==
    [l |-> [i \in 1..lLen |-> bint(TestL[i] * w)],
     n |-> [i \in 1..nLen |-> bint(TestN[i] * w)]]

\* the proofs a verifier may be handed in place of prf
Bump(v, i) == [j \in 1..Len(v) |-> IF j = i THEN (v[j] + 1) % Q ELSE v[j]]

HandedProofs(prf) ==
    {prf}
    \cup (IF Len(prf.L) > 0 THEN {[prf EXCEPT !.L = Bump(prf.L, 1)]} ELSE {})
    \cup (IF Len(prf.N) > 0 THEN {[prf EXCEPT !.N = Bump(prf.N, Len(prf.N))]} ELSE {})
    \cup (IF Len(prf.X) > 0 THEN {[prf EXCEPT !.X = Bump(prf.X, 1)]} ELSE {})
    \cup (IF Len(prf.R) > 0 THEN {[prf EXCEPT !.R = Bump(prf.R, Len(prf.R))]} ELSE {})
    \cup (IF Len(prf.X) > 0 THEN {[prf EXCEPT !.X = SliceFrom(prf.X, 1)]} ELSE {})
    \cup {[prf EXCEPT !.R = Append(prf.R, 1)]}

InitWNLA ==
    /\ oracle \in 0..(MaxOracle - 1)
    /\ \E sz \in WNLASizes, seed \in 0..MaxSeed, w \in 1..MaxWitness :
          /\ public = NewWeightNormLinearPublic(sz[1], sz[2], seed)
          /\ private = WNLAWitness(sz[1], sz[2], w)
    /\ fsP = NewKeccakFS
    /\ fsV = NewKeccakFS
    /\ pc = "start"
    /\ Com = None /\ proof = None /\ pw = None /\ vw = None /\ err = None
    /\ rangeP = None /\ rangeV = None

\* the caller: public.Commit(l, n) and the call of ProveWNLA
WNLAProveStart ==
    /\ pc = "start"
    /\ pc' = "proving"
    /\ Com' = Commit(public, private.l, private.n)
    /\ pw' = [public |-> public, Com |-> Com', l |-> private.l, n |-> private.n,
              R |-> <<>>, X |-> <<>>]
    /\ UNCHANGED <<rangeP, rangeV, oracle, fsP, fsV, public, private, proof, vw, err>>

\* a level of ProveWNLA that recurses
WNLAProveFold ==
    /\ pc = "proving"
    /\ ~ProveWNLAIsBase(pw.l, pw.n)
    /\ \E r \in {ProveWNLARound(pw.public, pw.Com, fsP, pw.l, pw.n)} :
           /\ pw' = [public |-> r.public, Com |-> r.Com, l |-> r.l, n |-> r.n,
                     R |-> Append(pw.R, r.R), X |-> Append(pw.X, r.X)]
           /\ fsP' = r.fs
    /\ UNCHANGED <<rangeP, rangeV, oracle, fsV, pc, public, private, Com, proof, vw, err>>

\* the innermost level of ProveWNLA
WNLAProveBase ==
    /\ pc = "proving"
    /\ ProveWNLAIsBase(pw.l, pw.n)
    /\ proof' = [R |-> pw.R, X |-> pw.X, L |-> pw.l, N |-> pw.n]
    /\ pc' = "proved"
    /\ UNCHANGED <<rangeP, rangeV, oracle, fsP, fsV, public, private, Com, pw, vw, err>>

\* the call of VerifyWNLA
WNLAVerifyStart ==
    /\ pc = "proved"
    /\ \E prf \in HandedProofs(proof), C0 \in {Com, PointAdd(Com, public.G)} :
          vw' = [public |-> public, proof |-> prf, Com |-> C0,
                 given |-> [proof |-> prf, Com |-> C0]]
    /\ pc' = "verifying"
    /\ UNCHANGED <<rangeP, rangeV, oracle, fsP, fsV, public, private, Com, proof, pw, err>>

\* VerifyWNLA returns the length error
WNLAVerifyLength ==
    /\ pc = "verifying"
    /\ ~VerifyWNLALengthOk(vw.proof)
    /\ err' = ErrLength
    /\ pc' = "verified"
    /\ UNCHANGED <<rangeP, rangeV, oracle, fsP, fsV, public, private, Com, proof, pw, vw>>

\* VerifyWNLA with no round left
WNLAVerifyBase ==
    /\ pc = "verifying"
    /\ VerifyWNLALengthOk(vw.proof)
    /\ Len(vw.proof.X) = 0
    /\ err' = IF VerifyWNLABaseOk(vw.public, vw.proof, vw.Com) THEN ErrNil ELSE ErrVerify
    /\ pc' = "verified"
    /\ UNCHANGED <<rangeP, rangeV, oracle, fsP, fsV, public, private, Com, proof, pw, vw>>

\* a level of VerifyWNLA that recurses
WNLAVerifyFold ==
    /\ pc = "verifying"
    /\ VerifyWNLALengthOk(vw.proof)
    /\ Len(vw.proof.X) # 0
    /\ \E r \in {VerifyWNLARound(vw.public, vw.proof, vw.Com, fsV)} :
           /\ vw' = [vw EXCEPT !.public = r.public, !.proof = r.proof, !.Com = r.Com]
           /\ fsV' = r.fs
    /\ UNCHANGED <<rangeP, rangeV, oracle, fsP, pc, public, private, Com, proof, pw, err>>

NextWNLA ==
    \/ WNLAProveStart \/ WNLAProveFold \/ WNLAProveBase
    \/ WNLAVerifyStart \/ WNLAVerifyLength \/ WNLAVerifyBase \/ WNLAVerifyFold

SpecWNLA == InitWNLA /\ [][NextWNLA]_vars

(***************************************************************************)
(* Properties of the weight norm linear argument                           *)
(***************************************************************************)
\* VerifyWNLA was handed what ProveWNLA was given and returned
HonestRun == vw.given.proof = proof /\ vw.given.Com = Com

\* C1: WNLA completeness: for all parameters with Mu = Ro^2 and all l, n
\* of the lengths of HVec and GVec, VerifyWNLA returns nil on the proof of
\* ProveWNLA for Commit(l, n).
WNLACompleteness == (pc = "verified" /\ HonestRun) => err = ErrNil

\* the commitment recomputed from (L, N) under the parameters folded through
\* all rounds of prf differs from the commitment folded through them
RECURSIVE FoldedCommitDiffers(_, _, _, _)
FoldedCommitDiffers(pub, prf, C0, fs) ==
    IF Len(prf.X) = 0 THEN Commit(pub, prf.L, prf.N) # C0
    ELSE The({ FoldedCommitDiffers(r.public, r.proof, r.Com, r.fs)
             : r \in {VerifyWNLARound(pub, prf, C0, fs)} })

\* C6: VerifyWNLA returns an error if and only if len(X) # len(R) or the
\* commitment recomputed from (L, N) under the folded parameters differs
\* from the folded commitment; in every other case it returns nil.
VerifyWNLAErrors ==
    pc = "verified" =>
        /\ err \in {ErrNil, ErrLength, ErrVerify}
        /\ (err # ErrNil) <=>
              \/ Len(vw.given.proof.X) # Len(vw.given.proof.R)
              \/ FoldedCommitDiffers(public, vw.given.proof, vw.given.Com, NewKeccakFS)

\* a modified proof was folded and rejected at the base case
VerifyWNLAErrorsWitness ==
    /\ pc = "verified"
    /\ Len(vw.given.proof.X) > 0
    /\ Len(vw.given.proof.X) = Len(vw.given.proof.R)
    /\ vw.given.proof # proof
    /\ err = ErrVerify

\* C7: ProveWNLA returns empty X and R with L = l, N = n exactly when
\* |l| + |n| < 6 (with 6 scalars it folds); on a proof with empty X and R
\* VerifyWNLA leaves the transcript untouched and returns nil exactly when
\* Commit(L, N) is the given commitment.
WNLABaseCase ==
    /\ pc \in {"proved", "verifying", "verified"} =>
          ((Len(proof.X) = 0 /\ Len(proof.R) = 0
              /\ proof.L = private.l /\ proof.N = private.n)
           <=> Len(private.l) + Len(private.n) < 6)
    /\ (/\ pc = "verified"
        /\ Len(vw.given.proof.X) = 0
        /\ Len(vw.given.proof.R) = 0)
          => /\ fsV = NewKeccakFS
             /\ (err = ErrNil) <=>
                   Commit(public, vw.given.proof.L, vw.given.proof.N) = vw.given.Com

\* five scalars sent in the clear and accepted
WNLABaseCaseWitness ==
    /\ pc = "verified"
    /\ Len(private.l) + Len(private.n) = 5
    /\ Len(proof.X) = 0
    /\ HonestRun
    /\ err = ErrNil

RandScalarNonZero ==
    /\ public.Ro \in 1..(Q - 1)
    /\ inv(public.Ro) # NIL
    /\ mul(public.Ro, inv(public.Ro)) = bint(1)
    /\ \A i \in 1..Len(public.C) : public.C[i] \in 1..(Q - 1)

\* the commitment VerifyWNLA derives for the next level from the
\* commitment C0 of this level, the points X, R and the challenge y
FoldedCom(C0, X, R, y) ==
    PointAdd(PointAdd(C0, ScalarMult(X, y)), ScalarMult(R, sub(mul(y, y), bint(1))))

\* a level of ProveWNLA recurses, on parameters with Mu = Ro^2 and Ro
\* invertible and on a commitment that is Commit(l, n)
ProveWNLAFoldsCommitted ==
    /\ pc = "proving" /\ pc' = "proving"
    /\ Len(pw'.X) = Len(pw.X) + 1
    /\ pw.public.Mu = mul(pw.public.Ro, pw.public.Ro)
    /\ inv(pw.public.Ro) # NIL
    /\ pw.Com = Commit(pw.public, pw.l, pw.n)

\* C17: WNLA folding identity: for parameters with Mu = Ro^2 and Ro
\* invertible, l, n with Com = Commit(l, n) and the challenge y, the
\* commitment the prover hands to the next level is Commit(l', n') under the
\* folded parameters (G, G', H', C', Mu, Mu^2) and equals the commitment the
\* verifier derives, Com + y*X + (y^2 - 1)*R.
WNLAFoldingIdentity ==
    [][ProveWNLAFoldsCommitted =>
           /\ pw'.Com = Commit(pw'.public, pw'.l, pw'.n)
           /\ pw'.Com = FoldedCom(pw.Com, pw'.X[Len(pw'.X)], pw'.R[Len(pw'.R)],
                                  SumModOrder(fsP'.state))]_vars

\* entry i of a vector of points or of scalars, counted from 1, and the
\* zero past its end
PointAt(v, i) == IF i <= Len(v) THEN v[i] ELSE Infinity

ScalarAt(v, i) == IF i <= Len(v) THEN v[i] ELSE bint(0)

\* q is what a level of the argument on the parameters p hands to the next
\* level when the challenge is y
FoldedParameters(p, q, y) ==
    /\ q.Ro = p.Mu
    /\ q.Mu = mul(p.Mu, p.Mu)
    /\ q.Mu = mul(q.Ro, q.Ro)
    /\ q.G = p.G
    /\ Len(q.GVec) = (Len(p.GVec) + 1) \div 2
    /\ Len(q.HVec) = (Len(p.HVec) + 1) \div 2
    /\ Len(q.C) = (Len(p.C) + 1) \div 2
    /\ \A i \in 1..Len(q.GVec) :
          q.GVec[i] = PointAdd(ScalarMult(PointAt(p.GVec, 2 * i - 1), p.Ro),
                               ScalarMult(PointAt(p.GVec, 2 * i), y))
    /\ \A i \in 1..Len(q.HVec) :
          q.HVec[i] = PointAdd(PointAt(p.HVec, 2 * i - 1),
                               ScalarMult(PointAt(p.HVec, 2 * i), y))
    /\ \A i \in 1..Len(q.C) :
          q.C[i] = add(ScalarAt(p.C, 2 * i - 1), mul(ScalarAt(p.C, 2 * i), y))

\* a level of ProveWNLA, or of VerifyWNLA, on parameters with Mu = Ro^2
\* recurses
ProveWNLARecurses ==
    /\ pc = "proving" /\ pc' = "proving"
    /\ Len(pw'.X) = Len(pw.X) + 1
    /\ pw.public.Mu = mul(pw.public.Ro, pw.public.Ro)

VerifyWNLARecurses ==
    /\ pc = "verifying" /\ pc' = "verifying"
    /\ Len(vw'.proof.X) + 1 = Len(vw.proof.X)
    /\ vw.public.Mu = mul(vw.public.Ro, vw.public.Ro)

\* C20: parameter invariant across the WNLA recursion: starting from
\* parameters with Mu = Ro^2, at every level of ProveWNLA and of VerifyWNLA
\* the parameters passed to the next level have Ro' = Mu and Mu' = Mu^2
\* (hence Mu' = Ro'^2), G unchanged, and GVec', HVec', C' of lengths
\* ceil(|GVec|/2), ceil(|HVec|/2), ceil(|C|/2), folded from the entries at
\* even and at odd positions.
WNLAParameterInvariant ==
    [][/\ ProveWNLARecurses
          => FoldedParameters(pw.public, pw'.public, SumModOrder(fsP'.state))
       /\ VerifyWNLARecurses
          => FoldedParameters(vw.public, vw'.public, SumModOrder(fsV'.state))]_vars

\* every level starts from parameters with Mu = Ro^2
WNLAParametersSquared ==
    /\ pc = "proving" => pw.public.Mu = mul(pw.public.Ro, pw.public.Ro)
    /\ pc = "verifying" => vw.public.Mu = mul(vw.public.Ro, vw.public.Ro)

\* VerifyWNLA has folded parameters with five points in HVec and three in
\* GVec, on the proof ProveWNLA made with the same folding
WNLAParameterInvariantWitness ==
    /\ pc = "verifying" /\ HonestRun
    /\ Len(public.HVec) = 5 /\ Len(public.GVec) = 3
    /\ Len(vw.given.proof.X) = 1 /\ Len(vw.proof.X) = 0
    /\ Len(vw.public.HVec) = 3 /\ Len(vw.public.GVec) = 2 /\ Len(vw.public.C) = 3
    /\ vw.public = pw.public
    /\ vw.public.G = public.G
    /\ vw.public.Ro = public.Mu
    /\ vw.public.Ro # bint(0)
    /\ vw.public.Mu = mul(vw.public.Ro, vw.public.Ro)

(***************************************************************************)
(* ProveWNLA on its own, on vectors of every pair of lengths up to         *)
(* MaxVecLen, the empty vector and odd and unequal lengths included.  The  *)
(* recursion is a sequence of calls on one goroutine: a level that can run *)
(* does run, and every level changes pc or the frame pw.  The caller has    *)
(* computed public.Commit(l, n) before the call, as TestWNLA does.         *)
(***************************************************************************)
VectorWitness(lLen, nLen, w) ==
    [l |-> [i \in 1..lLen |-> bint((7 * i + 3) * w)],
     n |-> [i \in 1..nLen |-> bint((5 * i + 1) * w)]]

InitWNLAProver ==
    /\ oracle \in 0..(MaxOracle - 1)
    /\ \E lLen \in 0..MaxVecLen, nLen \in 0..MaxVecLen, seed \in {0, MaxSeed},
          w \in 1..MaxWitness :
          /\ public = NewWeightNormLinearPublic(lLen, nLen, seed)
          /\ private = VectorWitness(lLen, nLen, w)
    /\ fsP = NewKeccakFS
    /\ fsV = NewKeccakFS
    /\ pc = "start"
    /\ Com = Commit(public, private.l, private.n)
    /\ proof = None /\ pw = None /\ vw = None /\ err = None
    /\ rangeP = None /\ rangeV = None

NextWNLAProver == WNLAProveStart \/ WNLAProveFold \/ WNLAProveBase

\* a recursing level is enabled exactly when the frame is not a base case
\* (ENABLED <<WNLAProveFold>>_<<pc, pw>> written out: the level appends to
\* pw.R, so it always changes the frame)
ProveWNLAFoldEnabled == pc = "proving" /\ ~ProveWNLAIsBase(pw.l, pw.n)

\* weak fairness of the recursing level, with its enabling condition
\* written out
ProveWNLAFoldFair ==
    []<>(~ProveWNLAFoldEnabled) \/ []<><<WNLAProveFold>>_<<pc, pw>>

SpecWNLAProver ==
    /\ InitWNLAProver /\ [][NextWNLAProver]_vars
    /\ WF_<<pc, pw>>(WNLAProveStart)
    /\ WF_<<pc, pw>>(WNLAProveBase)
    /\ ProveWNLAFoldFair

\* ceil(log2(n)), and n ceil-halved k times
RECURSIVE CeilLog2(_)
CeilLog2(n) == IF n <= 1 THEN 0 ELSE 1 + CeilLog2((n + 1) \div 2)

RECURSIVE HalvedTimes(_, _)
HalvedTimes(n, k) == IF k = 0 THEN n ELSE HalvedTimes((n + 1) \div 2, k - 1)

\* ProveWNLA returned after r = len(X) rounds: r is at most
\* ceil(log2(max(|l|, |n|))), every round ceil-halved both lengths, the
\* round before the last still had six scalars or more and the last has
\* fewer
ProveWNLAReturned ==
    /\ pc = "proved"
    /\ Len(proof.X) <= CeilLog2(Max(Len(private.l), Len(private.n)))
    /\ Len(proof.L) = HalvedTimes(Len(private.l), Len(proof.X))
    /\ Len(proof.N) = HalvedTimes(Len(private.n), Len(proof.X))
    /\ Len(proof.L) + Len(proof.N) < 6
    /\ Len(proof.X) > 0 =>
          HalvedTimes(Len(private.l), Len(proof.X) - 1)
              + HalvedTimes(Len(private.n), Len(proof.X) - 1) >= 6

\* C21: ProveWNLA terminates on every input, whether or not |l| and |n| are
\* powers of two (odd and unequal lengths included): each round replaces
\* |l|, |n| by ceil(|l|/2), ceil(|n|/2) and the recursion stops as soon as
\* |l| + |n| < 6, after at most ceil(log2(max(|l|, |n|))) rounds.
ProveWNLATerminates == <>ProveWNLAReturned

\* ProveWNLA returned after two rounds on vectors of 7 and 3 scalars
ProveWNLATerminatesWitness ==
    /\ ProveWNLAReturned
    /\ Len(private.l) = 7 /\ Len(private.n) = 3
    /\ Len(proof.X) = 2
    /\ Len(proof.L) = 2 /\ Len(proof.N) = 1

\* the number of rounds ProveWNLA ran: one challenge drawn per round
ProveWNLARounds == ChallengesUpTo(fsP.log, Len(fsP.log))

\* C22: the proof ProveWNLA returns has len(X) = len(R) = the number of
\* folding rounds and len(L) + len(N) < 6, with len(L), len(N) the lengths
\* of l, n ceil-halved once per round; VerifyWNLA never returns the
\* length-mismatch error on the proof of an honest prover, at no level.
WNLAProofShape ==
    /\ pc \in {"proved", "verifying", "verified"} =>
          /\ Len(proof.X) = ProveWNLARounds
          /\ Len(proof.R) = ProveWNLARounds
          /\ Len(proof.L) + Len(proof.N) < 6
          /\ Len(proof.L) = HalvedTimes(Len(private.l), ProveWNLARounds)
          /\ Len(proof.N) = HalvedTimes(Len(private.n), ProveWNLARounds)
    /\ (pc \in {"verifying", "verified"} /\ HonestRun) =>
          VerifyWNLALengthOk(vw.proof)
    /\ (pc = "verified" /\ HonestRun) => err # ErrLength

\* VerifyWNLA returned on the honest proof of two rounds for |l| = 8,
\* |n| = 4
WNLAProofShapeWitness ==
    /\ pc = "verified" /\ HonestRun
    /\ Len(private.l) = 8 /\ Len(private.n) = 4
    /\ ProveWNLARounds = 2
    /\ Len(proof.X) = 2 /\ Len(proof.R) = 2
    /\ Len(proof.L) = 2 /\ Len(proof.N) = 1
    /\ Len(vw.proof.X) = 0

\* the calls of one folding round on the transcript, in order
RoundOps ==
    <<"AddPoint", "AddPoint", "AddPoint", "AddNumber", "AddNumber", "GetChallenge">>

\* a transcript of whole rounds: round k absorbs X[k], R[k], the lengths of
\* HVec and GVec of level k, and then draws a challenge
RoundShaped(log, prf, pub) ==
    /\ Len(log) % 6 = 0
    /\ \A i \in 1..Len(log) : log[i].op = RoundOps[((i - 1) % 6) + 1]
    /\ \A k \in 1..(Len(log) \div 6) :
          /\ log[6 * k - 4].arg = prf.X[k]
          /\ log[6 * k - 3].arg = prf.R[k]
          /\ log[6 * k - 2].arg = bint(HalvedTimes(Len(pub.HVec), k - 1))
          /\ log[6 * k - 1].arg = bint(HalvedTimes(Len(pub.GVec), k - 1))

\* C23: in every folding round ProveWNLA and VerifyWNLA absorb exactly
\* Com, X, R, len(HVec), len(GVec), in this order, and then draw y; on the
\* honest proof for Com = Commit(l, n) the verifier absorbs in every round
\* what the prover absorbed and draws the same y at every level.
WNLARoundsAbsorbAlike ==
    /\ pc \in {"proved", "verifying", "verified"} =>
          /\ RoundShaped(fsP.log, proof, public)
          /\ Len(fsP.log) > 0 => fsP.log[1].arg = Com
    /\ pc \in {"verifying", "verified"} =>
          /\ RoundShaped(fsV.log, vw.given.proof, public)
          /\ Len(fsV.log) > 0 => fsV.log[1].arg = vw.given.Com
    /\ (pc \in {"verifying", "verified"} /\ HonestRun) =>
          \A i \in 1..Len(fsV.log) : fsV.log[i] = fsP.log[i]

(***************************************************************************)
(* VerifyWNLA on a proof whose terminal opening was lengthened: the proof  *)
(* of ProveWNLA with scalars appended to L or to N, handed to VerifyWNLA   *)
(* with the commitment the prover was given.                               *)
(***************************************************************************)
\* the scalars appended to an opening
AppendedScalars == {<<0>>, <<1>>, <<2, 3>>}

\* prf, and prf with L or N lengthened
AppendedProofs(prf) ==
    {prf}
    \cup {[R |-> prf.R, X |-> prf.X, L |-> prf.L \o ext, N |-> prf.N]
             : ext \in AppendedScalars}
    \cup {[R |-> prf.R, X |-> prf.X, L |-> prf.L, N |-> prf.N \o ext]
             : ext \in AppendedScalars}

\* the call of VerifyWNLA on a proof of AppendedProofs
WNLAVerifyAppended ==
    /\ pc = "proved"
    /\ \E prf \in AppendedProofs(proof) :
          vw' = [public |-> public, proof |-> prf, Com |-> Com,
                 given |-> [proof |-> prf, Com |-> Com]]
    /\ pc' = "verifying"
    /\ UNCHANGED <<rangeP, rangeV, oracle, fsP, fsV, public, private, Com, proof, pw, err>>

NextWNLAAppended ==
    \/ WNLAProveStart \/ WNLAProveFold \/ WNLAProveBase
    \/ WNLAVerifyAppended \/ WNLAVerifyBase \/ WNLAVerifyFold

SpecWNLAAppended == InitWNLA /\ [][NextWNLAAppended]_vars

\* C29: the decision of VerifyWNLA depends on every scalar of the terminal
\* opening: a proof with scalars appended to L (or to N), longer than the
\* folded HVec (or GVec), is rejected; an accepted proof has
\* len(L) <= |folded HVec| and len(N) <= |folded GVec|.
AcceptedOpeningFits ==
    (pc = "verified" /\ err = ErrNil) =>
        /\ Len(vw.given.proof.L) <= Len(vw.public.HVec)
        /\ Len(vw.given.proof.N) <= Len(vw.public.GVec)

(***************************************************************************)
(* circuit.go: the arithmetic circuit argument.  A circuit is a record     *)
(* with the fields of ArithmeticCircuitPublic; its partition function F is *)
(* kept as the pair (typ, below) of the closures of the repository, which  *)
(* return the index itself for one partition type and the indices under a  *)
(* limit, and nil otherwise.                                               *)
(***************************************************************************)
PartitionLO == 0

PartitionLL == 1

PartitionLR == 2

PartitionNO == 3

PartitionF(pub, typ, index) ==
    IF typ = pub.F.typ /\ index < pub.F.below THEN index ELSE NIL

\* the loops `x[j] = 0; if i := public.F(typ, j); i != nil { x[j].Set(w[*i]) }`
Routed(pub, typ, w, n) ==
    [j \in 1..n |-> IF PartitionF(pub, typ, j - 1) # NIL
                    THEN w[PartitionF(pub, typ, j - 1) + 1]
                    ELSE 0]

CommitCircuit(p, v, s) ==
    PointAdd(PointAdd(ScalarMult(p.G, v[1]), ScalarMult(p.HVec[1], s)),
             vectorPointScalarMul(SliceFrom(p.HVec, 9), SliceFrom(v, 1)))

\* x must have an inverse: new(big.Int).Set(nil) does not return
diagInv(x, n) ==
    [i \in 1..n |-> [j \in 1..n |-> IF i = j THEN Exp(inv(x), i) ELSE bint(0)]]

vectorMulOnMatrix(a, m) ==
    [j \in 1..Len(m[1]) |-> vectorMul(a, [i \in 1..Len(m) |-> m[i][j]])]

calculateMRL(pub) ==
    [MlnL |-> [i \in 1..pub.Nl |-> SliceTo(pub.Wl[i], pub.Nm)],
     MmnL |-> [i \in 1..pub.Nm |-> SliceTo(pub.Wm[i], pub.Nm)],
     MlnR |-> [i \in 1..pub.Nl |-> SliceTo(SliceFrom(pub.Wl[i], pub.Nm), pub.Nm)],
     MmnR |-> [i \in 1..pub.Nm |-> SliceTo(SliceFrom(pub.Wm[i], pub.Nm), pub.Nm)]]

calculateMO(pub) ==
    LET Routes(WlO, WmO) ==
        [MlnO |-> [i \in 1..pub.Nl |-> Routed(pub, PartitionNO, WlO[i], pub.Nm)],
         MmnO |-> [i \in 1..pub.Nm |-> Routed(pub, PartitionNO, WmO[i], pub.Nm)],
         MllL |-> [i \in 1..pub.Nl |-> Routed(pub, PartitionLL, WlO[i], pub.Nv)],
         MmlL |-> [i \in 1..pub.Nm |-> Routed(pub, PartitionLL, WmO[i], pub.Nv)],
         MllR |-> [i \in 1..pub.Nl |-> Routed(pub, PartitionLR, WlO[i], pub.Nv)],
         MmlR |-> [i \in 1..pub.Nm |-> Routed(pub, PartitionLR, WmO[i], pub.Nv)],
         MllO |-> [i \in 1..pub.Nl |-> Routed(pub, PartitionLO, WlO[i], pub.Nv)],
         MmlO |-> [i \in 1..pub.Nm |-> Routed(pub, PartitionLO, WmO[i], pub.Nv)]]
    IN  The({ The({ Routes(WlO, WmO)
                  : WmO \in {[i \in 1..pub.Nm |-> SliceFrom(pub.Wm[i], pub.Nm * 2)]} })
            : WlO \in {[i \in 1..pub.Nl |-> SliceFrom(pub.Wl[i], pub.Nm * 2)]} })

lcomb(pub, lambda, mu, i) ==
    add(mul(bbool(pub.Fl), pow(lambda, pub.Nv * i)),
        mul(bbool(pub.Fm), pow(mu, pub.Nv * i + 1)))

\* lambdaVec, muVec and the coefficient vectors cnX, clX, X = L, R, O, which
\* VerifyCircuit and innerArithmeticCircuitProve compute by the same lines
circuitCoefficients(pub, lambda, mu) ==
    LET lambdaVec0 == vectorAdd(
            vectorTensorMul(vectorMulOnScalar(e(lambda, pub.Nv), mu),
                            e(pow(mu, pub.Nv), pub.K)),
            vectorTensorMul(e(mu, pub.Nv), e(pow(lambda, pub.Nv), pub.K)))
        lambdaVec1 == vectorMulOnScalar(lambdaVec0, bbool(pub.Fl /\ pub.Fm))
        Coefficients(M, MO, lambdaVec, muVec, muDiagInv) ==
            [lambdaVec |-> lambdaVec,
             muVec |-> muVec,
             cnL |-> vectorMulOnMatrix(vectorSub(vectorMulOnMatrix(lambdaVec, M.MlnL),
                                                 vectorMulOnMatrix(muVec, M.MmnL)), muDiagInv),
             cnR |-> vectorMulOnMatrix(vectorSub(vectorMulOnMatrix(lambdaVec, M.MlnR),
                                                 vectorMulOnMatrix(muVec, M.MmnR)), muDiagInv),
             cnO |-> vectorMulOnMatrix(vectorSub(vectorMulOnMatrix(lambdaVec, MO.MlnO),
                                                 vectorMulOnMatrix(muVec, MO.MmnO)), muDiagInv),
             clL |-> vectorSub(vectorMulOnMatrix(lambdaVec, MO.MllL),
                               vectorMulOnMatrix(muVec, MO.MmlL)),
             clR |-> vectorSub(vectorMulOnMatrix(lambdaVec, MO.MllR),
                               vectorMulOnMatrix(muVec, MO.MmlR)),
             clO |-> vectorSub(vectorMulOnMatrix(lambdaVec, MO.MllO),
                               vectorMulOnMatrix(muVec, MO.MmlO))]
    IN  The({ The({ The({ The({ The({ Coefficients(M, MO, lambdaVec, muVec, muDiagInv)
                                    : muDiagInv \in {diagInv(mu, pub.Nm)} })
                              : muVec \in {vectorMulOnScalar(e(mu, pub.Nm), mu)} })
                        : lambdaVec \in {vectorSub(e(lambda, pub.Nl), lambdaVec1)} })
                  : MO \in {calculateMO(pub)} })
            : M \in {calculateMRL(pub)} })

cl0(pub, lambda, mu) ==
    vectorSub(vectorMulOnScalar(SliceFrom(e(lambda, pub.Nv), 1), bbool(pub.Fl)),
              vectorMulOnScalar(vectorMulOnScalar(SliceFrom(e(mu, pub.Nv), 1), mu),
                                bbool(pub.Fm)))

\* pnT, psT, PT and cT, which both sides compute from public values
circuitPublicT(pub, c, lambda, mu, beta, delta, t) ==
    LET tinv == inv(t)
        t2 == mul(t, t)
        t3 == mul(t2, t)
        PsT(pnT) == sub(add(weightVectorMul(pnT, pnT, mu),
                            mul(bint(2), mul(vectorMul(c.lambdaVec, pub.Al), t3))),
                        mul(bint(2), mul(vectorMul(c.muVec, pub.Am), t3)))
        cr_T == <<bint(1), mul(beta, tinv), mul(beta, t), mul(beta, t2), mul(beta, t3),
                  mul(beta, mul(t, t3)), mul(beta, mul(t2, t3)), mul(beta, mul(t3, t3)),
                  mul(beta, mul(mul(t3, t), t3))>>
        cl_T == vectorSub(
                    vectorMulOnScalar(
                        vectorAdd(vectorSub(vectorMulOnScalar(c.clO, mul(t3, inv(delta))),
                                            vectorMulOnScalar(c.clL, t2)),
                                  vectorMulOnScalar(c.clR, t)),
                        bint(2)),
                    cl0(pub, lambda, mu))
    IN  The({ The({ [pnT |-> pnT,
                    psT |-> psT,
                    PT |-> PointAdd(ScalarMult(pub.G, psT), vectorPointScalarMul(pub.GVec, pnT)),
                    cT |-> cr_T \o cl_T]
                  : psT \in {PsT(pnT)} })
            : pnT \in {vectorAdd(vectorSub(vectorMulOnScalar(c.cnO, mul(inv(delta), t3)),
                                  vectorMulOnScalar(c.cnL, t2)),
                        vectorMulOnScalar(c.cnR, t))} })

\* draws at+1 .. at+13 of the stream of seed
commitOL(pub, wo, wl, seed, at) ==
    LET r(i) == MustRandScalar(seed, at + i)
        ro == <<r(1), r(2), r(3), r(4), bint(0), r(5), r(6), r(7), bint(0)>>
        rl == <<r(8), r(9), r(10), bint(0), r(11), r(12), r(13), bint(0), bint(0)>>
        nl == wl
        no == Routed(pub, PartitionNO, wo, pub.Nm)
        lo == Routed(pub, PartitionLO, wo, pub.Nv)
        ll == Routed(pub, PartitionLL, wo, pub.Nv)
    IN  [ro |-> ro, rl |-> rl, no |-> no, nl |-> nl, lo |-> lo, ll |-> ll,
         Co |-> PointAdd(vectorPointScalarMul(pub.HVec, ro \o lo),
                         vectorPointScalarMul(pub.GVec, no)),
         Cl |-> PointAdd(vectorPointScalarMul(pub.HVec, rl \o ll),
                         vectorPointScalarMul(pub.GVec, nl))]

\* commitR with the slot rr[2] sampled
commitR_SampledSlot(pub, wo, wr, seed, at) ==
    LET r(i) == MustRandScalar(seed, at + i)
        rr == <<r(1), r(2), r(3), r(3), r(4), r(5), bint(0), bint(0), bint(0)>>
        nr == wr
        lr == Routed(pub, PartitionLR, wo, pub.Nv)
    IN  [rr |-> rr, nr |-> nr, lr |-> lr,
         Cr |-> PointAdd(vectorPointScalarMul(pub.HVec, rr \o lr),
                         vectorPointScalarMul(pub.GVec, nr))]

\* draws at+1 .. at+5
commitR(pub, wo, wr, seed, at) ==
    LET r(i) == MustRandScalar(seed, at + i)
        rr == <<r(1), r(2), bint(0), r(3), r(4), r(5), bint(0), bint(0), bint(0)>>
        nr == wr
        lr == Routed(pub, PartitionLR, wo, pub.Nv)
    IN  [rr |-> rr, nr |-> nr, lr |-> lr,
         Cr |-> PointAdd(vectorPointScalarMul(pub.HVec, rr \o lr),
                         vectorPointScalarMul(pub.GVec, nr))]

\* a linear combination that leaves out the weights lcomb(i)
RECURSIVE lcombSum_Unweighted(_, _, _, _, _)
lcombSum_Unweighted(pub, lambda, mu, x, k) ==
    IF k = 0 THEN bint(0)
    ELSE add(lcombSum_Unweighted(pub, lambda, mu, x, k - 1), x[k])

\* the linear combinations of v[][0], of Sv and of v[][1:]
RECURSIVE lcombSum(_, _, _, _, _)
lcombSum(pub, lambda, mu, x, k) ==
    IF k = 0 THEN bint(0)
    ELSE add(lcombSum(pub, lambda, mu, x, k - 1),
             mul(x[k], lcomb(pub, lambda, mu, k - 1)))

RECURSIVE lcombVector(_, _, _, _, _)
lcombVector(pub, lambda, mu, V, k) ==
    IF k = 0 THEN zeroVector(1)
    ELSE vectorAdd(lcombVector(pub, lambda, mu, V, k - 1),
                   vectorMulOnScalar(SliceFrom(V[k], 1), lcomb(pub, lambda, mu, k - 1)))

\* the coefficients f_[-2] .. f_[6] of f'(t); an entry of the map that was
\* never written reads as nil
fPrime(pub, c, c0, delta, mu, v_, v_1, ls, ns, l, n) ==
    LET two == bint(2)
        dinv2 == mul(two, inv(delta))
        nlR == vectorAdd(n.nl, c.cnR)
        nrL == vectorAdd(n.nr, c.cnL)
        fm2 == sub(NIL, weightVectorMul(ns, ns, mu))
        fm1 == add(add(NIL, vectorMul(c0, ls)),
                   mul(mul(two, delta), weightVectorMul(ns, n.no, mu)))
        f0 == sub(sub(sub(sub(NIL,
                  mul(two, vectorMul(c.clR, ls))),
                  mul(delta, vectorMul(c0, l.lo))),
                  mul(weightVectorMul(ns, nlR, mu), two)),
                  mul(mul(delta, delta), weightVectorMul(n.no, n.no, mu)))
        f1 == add(add(add(add(add(NIL,
                  mul(two, vectorMul(c.clL, ls))),
                  mul(two, mul(delta, vectorMul(c.clR, l.lo)))),
                  vectorMul(c0, l.ll)),
                  mul(weightVectorMul(ns, nrL, mu), two)),
                  mul(weightVectorMul(n.no, nlR, mu), mul(two, delta)))
        f2 == sub(sub(sub(sub(sub(sub(sub(add(NIL,
                  weightVectorMul(c.cnR, c.cnR, mu)),
                  mul(two, mul(inv(delta), vectorMul(c.clO, ls)))),
                  mul(two, mul(delta, vectorMul(c.clL, l.lo)))),
                  mul(two, vectorMul(c.clR, l.ll))),
                  vectorMul(c0, l.lr)),
                  mul(dinv2, weightVectorMul(ns, c.cnO, mu))),
                  mul(mul(two, delta), weightVectorMul(n.no, nrL, mu))),
                  weightVectorMul(nlR, nlR, mu))
        f4 == sub(sub(sub(sub(sub(add(add(NIL,
                  mul(dinv2, weightVectorMul(c.cnO, c.cnR, mu))),
                  weightVectorMul(c.cnL, c.cnL, mu)),
                  mul(dinv2, vectorMul(c.clO, l.ll))),
                  mul(two, vectorMul(c.clL, l.lr))),
                  mul(two, vectorMul(c.clR, v_1))),
                  mul(dinv2, weightVectorMul(nlR, c.cnO, mu))),
                  weightVectorMul(nrL, nrL, mu))
        f5 == add(add(add(sub(NIL,
                  mul(dinv2, weightVectorMul(c.cnO, c.cnL, mu))),
                  mul(dinv2, vectorMul(c.clO, l.lr))),
                  mul(two, vectorMul(c.clL, v_1))),
                  mul(dinv2, weightVectorMul(nrL, c.cnO, mu)))
        f6 == sub(NIL, mul(dinv2, vectorMul(c.clO, v_1)))
        f3 == add(add(add(add(add(add(add(sub(add(NIL,
                  mul(two, sub(vectorMul(c.lambdaVec, pub.Al), vectorMul(c.muVec, pub.Am)))),
                  mul(two, weightVectorMul(c.cnL, c.cnR, mu))),
                  v_),
                  mul(two, vectorMul(c.clO, l.lo))),
                  mul(two, vectorMul(c.clL, l.ll))),
                  mul(two, vectorMul(c.clR, l.lr))),
                  vectorMul(c0, v_1)),
                  mul(weightVectorMul(n.no, c.cnO, mu), two)),
                  mul(weightVectorMul(nlR, nrL, mu), two))
    IN  [fm2 |-> fm2, fm1 |-> fm1, f0 |-> f0, f1 |-> f1, f2 |-> f2,
         f3 |-> f3, f4 |-> f4, f5 |-> f5, f6 |-> f6]

\* k calls of GetChallenge: the challenges and the transcript after them
NextChallenge(r) ==
    The({ [fs |-> fs, ch |-> Append(r.ch, SumModOrder(fs.state))]
        : fs \in {GetChallengeFS(r.fs)} })

RECURSIVE GetChallenges(_, _)
GetChallenges(fs, k) ==
    IF k = 0 THEN [fs |-> fs, ch |-> <<>>]
    ELSE The({ NextChallenge(r)
             : r \in {GetChallenges(fs, k - 1)} })

\* the points CL, CR, CO are absorbed and rho, lambda, beta, delta drawn;
\* mu = rho^2
\* the challenges drawn before CL, CR, CO are absorbed
circuitChallenges_DrawFirst(fs, CL, CR, CO) ==
    The({ [rho |-> r.ch[1], lambda |-> r.ch[2], beta |-> r.ch[3], delta |-> r.ch[4],
          mu |-> mul(r.ch[1], r.ch[1]),
          fs |-> AddPoint(AddPoint(AddPoint(r.fs, CL), CR), CO)]
        : r \in {GetChallenges(fs, 4)} })

circuitChallenges(fs, CL, CR, CO) ==
    The({ [rho |-> r.ch[1], lambda |-> r.ch[2], beta |-> r.ch[3], delta |-> r.ch[4],
          mu |-> mul(r.ch[1], r.ch[1]), fs |-> r.fs]
        : r \in {GetChallenges(AddPoint(AddPoint(AddPoint(fs, CL), CR), CO), 4)} })

\* ProveCircuit: commitOL, then commitR, then innerArithmeticCircuitProve
\* as far as its challenges; the draws are at+1 .. at+18
proveCircuitCommit(pub, fs, prv, seed, at) ==
    The({ The({ [w |-> [ro |-> ol.ro, rl |-> ol.rl, rr |-> cr.rr,
                       no |-> ol.no, nl |-> ol.nl, nr |-> cr.nr,
                       lo |-> ol.lo, ll |-> ol.ll, lr |-> cr.lr,
                       Co |-> ol.Co, Cl |-> ol.Cl, Cr |-> cr.Cr],
                ch |-> circuitChallenges(fs, ol.Cl, cr.Cr, ol.Co)]
              : cr \in {commitR(pub, prv.Wo, prv.Wr, seed, at + 13)} })
        : ol \in {commitOL(pub, prv.Wo, prv.Wl, seed, at)} })

\* innerArithmeticCircuitProve from the blinding vectors ls, ns to the
\* challenge t; the draws are at+1 .. at+Nv+Nm
proveCircuitBlind(pub, fs, prv, w, ch, c, seed, at) ==
    LET ls == [i \in 1..pub.Nv |-> MustRandScalar(seed, at + i)]
        ns == [i \in 1..pub.Nm |-> MustRandScalar(seed, at + pub.Nv + i)]
        v_ == mul(lcombSum(pub, ch.lambda, ch.mu, [k \in 1..pub.K |-> prv.V[k][1]], pub.K),
                  bint(2))
        rv == [zeroVector(9) EXCEPT
                  ![1] = mul(lcombSum(pub, ch.lambda, ch.mu, prv.Sv, pub.K), bint(2))]
        v_1 == vectorMulOnScalar(lcombVector(pub, ch.lambda, ch.mu, prv.V, pub.K), bint(2))
        beta == ch.beta
        delta == ch.delta
        ro == w.ro
        rl == w.rl
        rr == w.rr
        Rs(f_, rv1, ch_beta_inv) ==
              <<add(f_.fm1, mul(beta, mul(delta, ro[2]))),
                mul(f_.fm2, ch_beta_inv),
                sub(mul(add(f_.f0, mul(delta, ro[1])), ch_beta_inv), rl[2]),
                add(mul(sub(f_.f1, rl[1]), ch_beta_inv), add(rr[2], mul(delta, ro[3]))),
                add(mul(add(f_.f2, rr[1]), ch_beta_inv), sub(mul(delta, ro[4]), rl[3])),
                minus(mul(rv1, ch_beta_inv)),
                add(mul(f_.f4, ch_beta_inv), add(mul(delta, ro[6]), sub(rr[4], rl[5]))),
                add(mul(f_.f5, ch_beta_inv), sub(add(rr[5], mul(delta, ro[7])), rl[6])),
                add(mul(f_.f6, ch_beta_inv), add(sub(mul(delta, ro[8]), rl[7]), rr[6]))>>
    IN  The({ The({ The({ The({ The({ [ls |-> ls, ns |-> ns, v_ |-> b.v_, rv |-> b.rv,
                                      v_1 |-> b.v_1, rs |-> rs, Cs |-> Cs, f3 |-> f_.f3,
                                      ch |-> GetChallenges(AddPoint(fs, Cs), 1)]
                                    : Cs \in {PointAdd(vectorPointScalarMul(pub.HVec, rs \o ls),
                                               vectorPointScalarMul(pub.GVec, ns))} })
                              : rs \in {Rs(f_, b.rv[1], ch_beta_inv)} })
                        : ch_beta_inv \in {inv(ch.beta)} })
                  : f_ \in {fPrime(pub, c, cl0(pub, ch.lambda, ch.mu), ch.delta, ch.mu,
                             b.v_, b.v_1, ls, ns, w, w)} })
            : b \in {[v_ |-> v_, rv |-> rv, v_1 |-> v_1]} })

\* innerArithmeticCircuitProve from the challenge t to its call of
\* ProveWNLA: the arguments of that call
proveCircuitReduce(pub, w, ch, c, b, t) ==
    LET tinv == inv(t)
        t2 == mul(t, t)
        t3 == mul(t2, t)
        n_T == vectorSub(vectorAdd(vectorSub(
                   vectorMulOnScalar(b.ns, tinv),
                   vectorMulOnScalar(w.no, ch.delta)),
                   vectorMulOnScalar(w.nl, t)),
                   vectorMulOnScalar(w.nr, t2))
        Reduced(lT, T, nT) ==
            LET vT == add(T.psT, mul(b.v_, t3))
                CT == PointAdd(PointAdd(ScalarMult(pub.G, vT),
                                        vectorPointScalarMul(pub.HVec, lT)),
                               vectorPointScalarMul(pub.GVec, nT))
                \* for len(lT) < len(HVec)+len(HVec_) { lT and cT get a zero }
                padL == Max(Len(pub.HVec) + Len(pub.HVec_) - Len(lT), 0)
                \* for len(nT) < len(GVec_)+len(GVec_) { nT gets a zero }
                padN == Max(Len(pub.GVec_) + Len(pub.GVec_) - Len(nT), 0)
            IN  [public |-> [G |-> pub.G,
                             GVec |-> pub.GVec \o pub.GVec_,
                             HVec |-> pub.HVec \o pub.HVec_,
                             C |-> T.cT \o zeroVector(padL),
                             Ro |-> ch.rho,
                             Mu |-> ch.mu],
                 Com |-> CT,
                 l |-> lT \o zeroVector(padL),
                 n |-> nT \o zeroVector(padN)]
    IN  The({ The({ The({ Reduced(lT, T, nT)
                        : nT \in {vectorAdd(T.pnT, n_T)} })
                  : T \in {circuitPublicT(pub, c, ch.lambda, ch.mu, ch.beta, ch.delta, t)} })
            : lT \in {vectorAdd(vectorSub(vectorAdd(vectorSub(
                       vectorMulOnScalar(b.rs \o b.ls, tinv),
                       vectorMulOnScalar(w.ro \o w.lo, ch.delta)),
                       vectorMulOnScalar(w.rl \o w.ll, t)),
                       vectorMulOnScalar(w.rr \o w.lr, t2)),
                       vectorMulOnScalar(b.rv \o b.v_1, t3))} })

\* a combination of the commitments V that leaves out the weights lcomb(k)
RECURSIVE lcombPoints_Unweighted(_, _, _, _, _)
lcombPoints_Unweighted(pub, lambda, mu, V, k) ==
    IF k = 0 THEN Infinity
    ELSE PointAdd(lcombPoints_Unweighted(pub, lambda, mu, V, k - 1), V[k])

\* the linear combination of the commitments V
RECURSIVE lcombPoints(_, _, _, _, _)
lcombPoints(pub, lambda, mu, V, k) ==
    IF k = 0 THEN Infinity
    ELSE PointAdd(lcombPoints(pub, lambda, mu, V, k - 1),
                  ScalarMult(V[k], lcomb(pub, lambda, mu, k - 1)))

\* VerifyCircuit from the challenge t to its call of VerifyWNLA: the
\* arguments of that call
verifyCircuitReduce(pub, V, ch, c, prf, t) ==
    LET V_ == ScalarMult(lcombPoints(pub, ch.lambda, ch.mu, V, pub.K), bint(2))
        tinv == inv(t)
        t2 == mul(t, t)
        t3 == mul(t2, t)
        CT(T) == PointAdd(PointAdd(PointAdd(PointAdd(PointAdd(
                     T.PT,
                     ScalarMult(prf.CS, tinv)),
                     ScalarMult(prf.CO, minus(ch.delta))),
                     ScalarMult(prf.CL, t)),
                     ScalarMult(prf.CR, minus(t2))),
                     ScalarMult(V_, t3))
    IN  The({ [public |-> [G |-> pub.G,
                          GVec |-> pub.GVec \o pub.GVec_,
                          HVec |-> pub.HVec \o pub.HVec_,
                          C |-> T.cT,
                          Ro |-> ch.rho,
                          Mu |-> ch.mu],
              Com |-> CT(T)]
            : T \in {circuitPublicT(pub, c, ch.lambda, ch.mu, ch.beta, ch.delta, t)} })

(***************************************************************************)
(* The arithmetic circuit argument end to end, on the circuits of          *)
(* circuit_test.go: the caller commits to the witness vectors, ProveCircuit *)
(* runs with a fresh transcript down to the last level of ProveWNLA, then  *)
(* VerifyCircuit runs with a fresh transcript on the proof and the         *)
(* commitments, or on a modification of them.  pw holds the position of    *)
(* the random stream until the prover starts.                              *)
(***************************************************************************)
\* TestArithmeticCircuit: knowledge of x, y with x + y = r and x * y = z
ArithmeticCircuit(wnla, x, y) ==
    [Nm |-> 1, Nl |-> 2, Nv |-> 2, Nw |-> 4, No |-> 2, K |-> 1,
     G |-> wnla.G,
     GVec |-> SliceTo(wnla.GVec, 1),
     HVec |-> SliceTo(wnla.HVec, 9 + 2),
     Wm |-> <<<<bint(0), bint(0), bint(1), bint(0)>>>>,
     Wl |-> <<<<bint(0), bint(1), bint(0), bint(0)>>,
              <<bint(1), bint(0), bint(0), bint(-1)>>>>,
     Am |-> <<bint(0)>>,
     Al |-> <<minus(bint(x + y)), bint(0)>>,
     Fl |-> TRUE,
     Fm |-> FALSE,
     F |-> [typ |-> PartitionLL, below |-> 2],
     GVec_ |-> SliceFrom(wnla.GVec, 1),
     HVec_ |-> SliceFrom(wnla.HVec, 9 + 2)]

ArithmeticCircuitWitness(x, y, seed, at) ==
    [V |-> <<<<bint(x), bint(y)>>>>,
     Sv |-> <<MustRandScalar(seed, at + 1)>>,
     Wl |-> <<bint(x)>>,
     Wr |-> <<bint(y)>>,
     Wo |-> <<bint(x * y), bint(x + y)>>]

\* TestArithmeticCircuitBinaryRangeProof: every entry of value is a bit
BinaryRangeCircuit(wnla) ==
    [Nm |-> 4, Nl |-> 8, Nv |-> 2, Nw |-> 12, No |-> 4, K |-> 4,
     G |-> wnla.G,
     GVec |-> SliceTo(wnla.GVec, 4),
     HVec |-> SliceTo(wnla.HVec, 9 + 2),
     Wm |-> [i \in 1..4 |-> [j \in 1..12 |-> IF j = 8 + i THEN bint(1) ELSE bint(0)]],
     Wl |-> [i \in 1..8 |-> [j \in 1..12 |-> IF j = (i + 1) \div 2 THEN bint(-1) ELSE bint(0)]],
     Am |-> zeroVector(4),
     Al |-> zeroVector(8),
     Fl |-> TRUE,
     Fm |-> FALSE,
     F |-> [typ |-> PartitionNO, below |-> 4],
     GVec_ |-> SliceFrom(wnla.GVec, 4),
     HVec_ |-> SliceFrom(wnla.HVec, 9 + 2)]

BinaryRangeWitness(value, seed, at) ==
    LET a == hadamardMul(value, value)
    IN  [V |-> [i \in 1..4 |-> <<value[i], a[i]>>],
         Sv |-> [i \in 1..4 |-> MustRandScalar(seed, at + i)],
         Wl |-> value,
         Wr |-> value,
         Wo |-> a]

\* the draws NewWeightNormLinearPublic(lLen, nLen) makes
DrawsOfPublic(lLen, nLen) == nLen + 2 * lLen + 2

\* the lengths of the weight norm linear GVec the circuit of
\* TestArithmeticCircuit (Nm = 1) is built on: GVec_ holds the rest, the
\* 2^n - Nm points of the documentation of ArithmeticCircuitPublic
CircuitGVecLens == {1, 2, 4}

\* the statements: circuit, witness and the number of draws made so far
CircuitTests(seed, w) ==
    {[public |-> ArithmeticCircuit(NewWeightNormLinearPublic(16, nLen, seed), 2 + w, 5),
      private |-> ArithmeticCircuitWitness(2 + w, 5, seed, DrawsOfPublic(16, nLen)),
      at |-> DrawsOfPublic(16, nLen) + 1] : nLen \in CircuitGVecLens}
    \cup
    {[public |-> BinaryRangeCircuit(NewWeightNormLinearPublic(16, 4, seed)),
      private |-> BinaryRangeWitness([i \in 1..4 |-> bint(((5 + w) \div (2 ^ (i - 1))) % 2)],
                                     seed, DrawsOfPublic(16, 4)),
      at |-> DrawsOfPublic(16, 4) + 4]}

InitCircuit ==
    /\ oracle \in 0..(MaxOracle - 1)
    /\ \E seed \in 0..MaxSeed, w \in 1..MaxWitness :
          \E test \in CircuitTests(seed, w) :
              /\ public = test.public
              /\ private = test.private
              /\ pw = [seed |-> seed, at |-> test.at]
    /\ fsP = NewKeccakFS
    /\ fsV = NewKeccakFS
    /\ pc = "start"
    /\ Com = None /\ proof = None /\ vw = None /\ err = None
    /\ rangeP = None /\ rangeV = None

\* the caller: V[i] = public.CommitCircuit(private.V[i], private.Sv[i]) and
\* the call of ProveCircuit, as far as the challenges rho .. delta
CircuitProveStart ==
    /\ pc = "start"
    /\ Com' = [k \in 1..public.K |-> CommitCircuit(public, private.V[k], private.Sv[k])]
    /\ \E r \in {proveCircuitCommit(public, fsP, private, pw.seed, pw.at)} :
           /\ proof' = [CL |-> r.w.Cl, CR |-> r.w.Cr, CO |-> r.w.Co]
           /\ pw' = [seed |-> pw.seed, at |-> pw.at + 18, w |-> r.w, ch |-> r.ch]
           /\ fsP' = r.ch.fs
    /\ pc' = "committed"
    /\ UNCHANGED <<rangeP, rangeV, oracle, fsV, public, private, vw, err>>

\* the prover of the circuit pub computes lambdaVec, muVec and the
\* coefficient vectors
ProveCoefficients(pub) ==
    /\ pc = "committed"
    /\ pw' = [seed |-> pw.seed, at |-> pw.at, w |-> pw.w, ch |-> pw.ch,
              c |-> circuitCoefficients(pub, pw.ch.lambda, pw.ch.mu)]
    /\ pc' = "coefficients"
    /\ UNCHANGED <<rangeP, rangeV, oracle, fsP, fsV, public, private, Com, proof, vw, err>>

CircuitProveCoefficients == ProveCoefficients(public)

\* the prover of the circuit pub with the witness prv draws ls and ns, sets
\* proof.CS, absorbs it and draws t
ProveBlind(pub, prv) ==
    /\ pc = "coefficients"
    /\ \E b \in {proveCircuitBlind(pub, fsP, prv, pw.w, pw.ch, pw.c, pw.seed, pw.at)} :
           /\ proof' = [CL |-> proof.CL, CR |-> proof.CR, CO |-> proof.CO, CS |-> b.Cs]
           /\ pw' = [w |-> pw.w, ch |-> pw.ch, c |-> pw.c, b |-> b, t |-> b.ch.ch[1]]
           /\ fsP' = b.ch.fs
    /\ pc' = "blinded"
    /\ UNCHANGED <<rangeP, rangeV, oracle, fsV, public, private, Com, vw, err>>

CircuitProveBlind == ProveBlind(public, private)

\* the prover of the circuit pub forms l_T, n_T, c_T and C_T, pads them and
\* calls ProveWNLA
ProveReduce(pub) ==
    /\ pc = "blinded"
    /\ \E r \in {proveCircuitReduce(pub, pw.w, pw.ch, pw.c, pw.b, pw.t)} :
           pw' = [public |-> r.public, Com |-> r.Com, l |-> r.l, n |-> r.n,
                  R |-> <<>>, X |-> <<>>]
    /\ pc' = "proving"
    /\ UNCHANGED <<rangeP, rangeV, oracle, fsP, fsV, public, private, Com, proof, vw, err>>

CircuitProveReduce == ProveReduce(public)

\* the innermost level of ProveWNLA returns and proof.WNLA is set
CircuitProveBase ==
    /\ pc = "proving"
    /\ ProveWNLAIsBase(pw.l, pw.n)
    /\ proof' = [CL |-> proof.CL, CR |-> proof.CR, CO |-> proof.CO, CS |-> proof.CS,
                 WNLA |-> [R |-> pw.R, X |-> pw.X, L |-> pw.l, N |-> pw.n]]
    /\ pc' = "proved"
    /\ UNCHANGED <<rangeP, rangeV, oracle, fsP, fsV, public, private, Com, pw, vw, err>>

\* the proofs a verifier may be handed in place of prf
HandedCircuitProofs(prf) ==
    {[prf EXCEPT !.WNLA = q] : q \in HandedProofs(prf.WNLA)}
    \cup {[prf EXCEPT !.CL = PointAdd(prf.CL, 1)], [prf EXCEPT !.CR = PointAdd(prf.CR, 1)],
          [prf EXCEPT !.CO = PointAdd(prf.CO, 1)], [prf EXCEPT !.CS = PointAdd(prf.CS, 1)]}

\* the call of VerifyCircuit, as far as the challenges ro .. delta
CircuitVerifyStart ==
    /\ pc = "proved"
    /\ \E prf \in HandedCircuitProofs(proof), V \in {Com, Bump(Com, 1)} :
          \E ch \in {circuitChallenges(fsV, prf.CL, prf.CR, prf.CO)} :
              /\ vw' = [given |-> [proof |-> prf, Com |-> V], ch |-> ch]
              /\ fsV' = ch.fs
    /\ pc' = "challenged"
    /\ UNCHANGED <<rangeP, rangeV, oracle, fsP, public, private, Com, proof, pw, err>>

\* the verifier of the circuit pub computes lambdaVec, muVec and the
\* coefficient vectors, absorbs proof.CS and draws t
VerifyCoefficients(pub) ==
    /\ pc = "challenged"
    /\ \E r \in {GetChallenges(AddPoint(fsV, vw.given.proof.CS), 1)} :
           /\ vw' = [given |-> vw.given, ch |-> vw.ch, t |-> r.ch[1],
                     c |-> circuitCoefficients(pub, vw.ch.lambda, vw.ch.mu)]
           /\ fsV' = r.fs
    /\ pc' = "reducing"
    /\ UNCHANGED <<rangeP, rangeV, oracle, fsP, public, private, Com, proof, pw, err>>

CircuitVerifyCoefficients == VerifyCoefficients(public)

\* the verifier of the circuit pub forms c_T and C_T and calls VerifyWNLA
VerifyReduce(pub) ==
    /\ pc = "reducing"
    /\ \E r \in {verifyCircuitReduce(pub, vw.given.Com, vw.ch, vw.c, vw.given.proof, vw.t)} :
           vw' = [public |-> r.public, proof |-> vw.given.proof.WNLA, Com |-> r.Com,
                  given |-> vw.given]
    /\ pc' = "verifying"
    /\ UNCHANGED <<rangeP, rangeV, oracle, fsP, fsV, public, private, Com, proof, pw, err>>

CircuitVerifyReduce == VerifyReduce(public)

NextCircuit ==
    \/ CircuitProveStart \/ CircuitProveCoefficients \/ CircuitProveBlind
    \/ CircuitProveReduce \/ WNLAProveFold \/ CircuitProveBase
    \/ CircuitVerifyStart \/ CircuitVerifyCoefficients \/ CircuitVerifyReduce
    \/ WNLAVerifyLength \/ WNLAVerifyBase \/ WNLAVerifyFold

SpecCircuit == InitCircuit /\ [][NextCircuit]_vars

(***************************************************************************)
(* Properties of the arithmetic circuit argument                           *)
(***************************************************************************)
matrixMulOnVector(a, m) == [i \in 1..Len(m) |-> vectorMul(a, m[i])]

RECURSIVE Concat(_, _)
Concat(V, k) == IF k = 0 THEN <<>> ELSE Concat(V, k - 1) \o V[k]

\* Wm*w + Am = wL (.) wR and Wl*w + (V[0]||...||V[K-1]) + Al = 0
CircuitSatisfied(pub, prv) ==
    LET w == prv.Wl \o prv.Wr \o prv.Wo
    IN  /\ vectorAdd(matrixMulOnVector(w, pub.Wm), pub.Am) = hadamardMul(prv.Wl, prv.Wr)
        /\ vectorAdd(vectorAdd(matrixMulOnVector(w, pub.Wl), Concat(prv.V, pub.K)), pub.Al)
              = zeroVector(pub.Nl)

\* C2: arithmetic circuit completeness: for a circuit with Fl = true and
\* Fm = false and a witness that satisfies it, VerifyCircuit with a fresh
\* transcript on V[k] = CommitCircuit(V[k], Sv[k]) returns nil on the proof
\* ProveCircuit produced with a fresh transcript, whatever the blindings.
CircuitCompleteness ==
    (/\ pc = "verified"
     /\ HonestRun
     /\ public.Fl /\ ~public.Fm
     /\ CircuitSatisfied(public, private)) => err = ErrNil

\* every statement of the runs is in the scope of the claim
CircuitStatementsSatisfied ==
    public.Fl /\ ~public.Fm /\ CircuitSatisfied(public, private)

(***************************************************************************)
(* ProveCircuit on its own, as far as its call of ProveWNLA, on the         *)
(* statements of circuit_test.go with the witness of the test and with     *)
(* witnesses that break one constraint: ProveCircuit does not test the      *)
(* witness it is given.                                                    *)
(***************************************************************************)
\* the witness prv and witnesses that differ from it in one entry
CircuitWitnesses(prv) ==
    {prv,
     [prv EXCEPT !.Wo = Bump(prv.Wo, 1)],
     [prv EXCEPT !.Wo = Bump(prv.Wo, Len(prv.Wo))],
     [prv EXCEPT !.Wl = Bump(prv.Wl, 1)],
     [prv EXCEPT !.V = <<Bump(prv.V[1], 1)>> \o SliceFrom(prv.V, 1)]}

InitCircuitProver ==
    /\ oracle \in 0..(MaxOracle - 1)
    /\ \E seed \in 0..MaxSeed, w \in 1..MaxWitness :
          \E test \in CircuitTests(seed, w) :
              /\ public = test.public
              /\ private \in CircuitWitnesses(test.private)
              /\ pw = [seed |-> seed, at |-> test.at]
    /\ fsP = NewKeccakFS
    /\ fsV = NewKeccakFS
    /\ pc = "start"
    /\ Com = None /\ proof = None /\ vw = None /\ err = None
    /\ rangeP = None /\ rangeV = None

NextCircuitProver ==
    \/ CircuitProveStart \/ CircuitProveCoefficients \/ CircuitProveBlind
    \/ CircuitProveReduce

SpecCircuitProver == InitCircuitProver /\ [][NextCircuitProver]_vars

\* ProveCircuit has just invoked ProveWNLA: no round was made yet
ProveWNLAInvoked == pc = "proving" /\ pw.R = <<>> /\ pw.X = <<>>

\* C16: padding before WNLA: when ProveCircuit invokes ProveWNLA, l_T and c_T
\* have length exactly |HVec| + |HVec_| and n_T has length exactly
\* |GVec| + |GVec_|, the lengths of the concatenated base vectors passed to
\* WNLA, and every entry the padding added (beyond the 9 + Nv entries of l_T
\* and c_T and the Nm entries of n_T) is zero.
PaddedBeforeWNLA ==
    ProveWNLAInvoked =>
        /\ Len(pw.public.HVec) = Len(public.HVec) + Len(public.HVec_)
        /\ Len(pw.public.GVec) = Len(public.GVec) + Len(public.GVec_)
        /\ Len(pw.l) = Len(public.HVec) + Len(public.HVec_)
        /\ Len(pw.public.C) = Len(public.HVec) + Len(public.HVec_)
        /\ Len(pw.n) = Len(public.GVec) + Len(public.GVec_)
        /\ \A i \in (9 + public.Nv + 1)..Len(pw.l) : pw.l[i] = bint(0)
        /\ \A i \in (9 + public.Nv + 1)..Len(pw.public.C) : pw.public.C[i] = bint(0)
        /\ \A i \in (public.Nm + 1)..Len(pw.n) : pw.n[i] = bint(0)

\* the challenges drawn from a transcript, in the order of the calls
RECURSIVE ChallengeValuesUpTo(_, _)
ChallengeValuesUpTo(log, i) ==
    IF i = 0 THEN <<>>
    ELSE IF IsChallenge(log[i]) THEN Append(ChallengeValuesUpTo(log, i - 1), log[i].arg)
         ELSE ChallengeValuesUpTo(log, i - 1)

\* rho, lambda, beta, delta and, once drawn, t
ProverChallenges == ChallengeValuesUpTo(fsP.log, Len(fsP.log))

\* the challenges the prover inverts have inverses
ProverChallengesInvertible ==
    /\ Len(ProverChallenges) = 5
    /\ \A i \in {1, 3, 4, 5} : inv(ProverChallenges[i]) # NIL

\* the left sides of the two "Circuit check" lines of the tests:
\* Wl*w + (V[0]||...||V[K-1]) + Al and Wm*w + Am - wL (.) wR
ConstraintL(pub, prv) ==
    vectorAdd(vectorAdd(matrixMulOnVector(prv.Wl \o prv.Wr \o prv.Wo, pub.Wl),
                        Concat(prv.V, pub.K)), pub.Al)

ConstraintM(pub, prv) ==
    vectorSub(vectorAdd(matrixMulOnVector(prv.Wl \o prv.Wr \o prv.Wo, pub.Wm), pub.Am),
              hadamardMul(prv.Wl, prv.Wr))

\* the residual of the constraints at the challenges lambda and mu: the
\* constraint vectors weighted by lambdaVec and muVec
Residual(pub, prv, lambda, mu) ==
    The({ mul(bint(2), sub(vectorMul(c.lambdaVec, ConstraintL(pub, prv)),
                           vectorMul(c.muVec, ConstraintM(pub, prv))))
        : c \in {circuitCoefficients(pub, lambda, mu)} })

\* C18: for every witness that satisfies the circuit and invertible
\* challenges rho, beta, delta, t, the coefficient f_[3] of t^3 the prover
\* computes is zero and the point C_T handed to ProveWNLA is
\* Commit(l_T, n_T) under (C = c_T, Ro = rho, Mu = rho^2); for a witness that
\* violates a constraint f_[3] is the residual of the constraints at
\* (lambda, mu), and C_T differs from Commit(l_T, n_T) unless the residual
\* is zero there.
CircuitOpensIffSatisfied ==
    /\ (pc = "blinded" /\ ProverChallengesInvertible) =>
          /\ pw.b.f3 = Residual(public, private, pw.ch.lambda, pw.ch.mu)
          /\ CircuitSatisfied(public, private) => pw.b.f3 = bint(0)
    /\ (ProveWNLAInvoked /\ ProverChallengesInvertible) =>
          /\ pw.public.Ro = ProverChallenges[1]
          /\ pw.public.Mu = mul(pw.public.Ro, pw.public.Ro)
          /\ CircuitSatisfied(public, private)
                => pw.Com = Commit(pw.public, pw.l, pw.n)
          /\ ~CircuitSatisfied(public, private)
                => (pw.Com = Commit(pw.public, pw.l, pw.n)
                       <=> Residual(public, private, ProverChallenges[2],
                                    pw.public.Mu) = bint(0))

\* the prover of the binary circuit has handed an opening C_T to ProveWNLA
\* for a witness of bits
CircuitOpensWitness ==
    /\ ProveWNLAInvoked /\ ProverChallengesInvertible
    /\ public.K = 4
    /\ CircuitSatisfied(public, private)
    /\ pw.Com = Commit(pw.public, pw.l, pw.n)

\* ... and for a witness that breaks a constraint, with a residual that is
\* not zero
CircuitDoesNotOpenWitness ==
    /\ ProveWNLAInvoked /\ ProverChallengesInvertible
    /\ ~CircuitSatisfied(public, private)
    /\ Residual(public, private, ProverChallenges[2], pw.public.Mu) # bint(0)
    /\ pw.Com # Commit(pw.public, pw.l, pw.n)

(***************************************************************************)
(* TestArithmeticCircuit without its last step: ProveCircuit to the end,   *)
(* on every witness of SpecCircuitProver, then VerifyCircuit with a fresh  *)
(* transcript on the proof and the commitments V of the caller, as far as  *)
(* its call of VerifyWNLA.                                                 *)
(***************************************************************************)
\* the call of VerifyCircuit on what ProveCircuit returned, as far as the
\* challenges ro .. delta
CircuitVerifyProved ==
    /\ pc = "proved"
    /\ \E ch \in {circuitChallenges(fsV, proof.CL, proof.CR, proof.CO)} :
          /\ vw' = [given |-> [proof |-> proof, Com |-> Com], ch |-> ch]
          /\ fsV' = ch.fs
    /\ pc' = "challenged"
    /\ UNCHANGED <<rangeP, rangeV, oracle, fsP, public, private, Com, proof, pw, err>>

NextCircuitReduction ==
    \/ CircuitProveStart \/ CircuitProveCoefficients \/ CircuitProveBlind
    \/ CircuitProveReduce \/ WNLAProveFold \/ CircuitProveBase
    \/ CircuitVerifyProved \/ CircuitVerifyCoefficients \/ CircuitVerifyReduce

SpecCircuitReduction == InitCircuitProver /\ [][NextCircuitReduction]_vars

\* the calls the prover of a circuit makes on its transcript before the
\* first level of ProveWNLA: three points, four challenges, the point CS
\* and the challenge t
CallsBeforeWNLA == 9

\* the point ProveCircuit passed to ProveWNLA as Com: the first level of
\* ProveWNLA absorbs it first
ProverCT == fsP.log[CallsBeforeWNLA + 1].arg

\* VerifyCircuit has just invoked VerifyWNLA
VerifyWNLAInvoked == pc = "verifying" /\ vw.proof = vw.given.proof.WNLA

\* C19: prover and verifier agree on C_T: for every witness, satisfying or
\* not, and every blinding and challenge, the point VerifyCircuit
\* reconstructs as P_T + t^-1*CS - delta*CO + t*CL - t^2*CR
\* + t^3*(2*sum_k lcomb(k)*V[k]) equals the point v_T*G + <l_T, HVec>
\* + <n_T, GVec> the prover passed to ProveWNLA, provided
\* V[k] = CommitCircuit(private.V[k], private.Sv[k]).
CircuitSidesAgreeOnCT ==
    (/\ VerifyWNLAInvoked
     /\ HonestRun
     /\ \A k \in 1..public.K :
           Com[k] = CommitCircuit(public, private.V[k], private.Sv[k]))
        => /\ fsP.log[CallsBeforeWNLA + 1].op = "AddPoint"
           /\ ChallengesUpTo(fsP.log, CallsBeforeWNLA) = 5
           /\ vw.Com = ProverCT

\* the two sides agree on the binary circuit for a witness that is not one
\* of bits
CircuitSidesAgreeOnCTWitness ==
    /\ VerifyWNLAInvoked /\ HonestRun
    /\ public.K = 4
    /\ ~CircuitSatisfied(public, private)
    /\ vw.Com = ProverCT

\* the call at place i of the transcript of the circuit argument: CL, CR,
\* CO absorbed, four challenges, CS absorbed, one challenge, WNLA rounds
CircuitOpAt(i) ==
    IF i <= 3 THEN "AddPoint"
    ELSE IF i <= 7 THEN "GetChallenge"
    ELSE IF i = 8 THEN "AddPoint"
    ELSE IF i = 9 THEN "GetChallenge"
    ELSE RoundOps[((i - 10) % 6) + 1]

\* a transcript of the circuit argument on the proof prf, as far as it went
CircuitOrdered(log, prf) ==
    /\ \A i \in 1..Len(log) : log[i].op = CircuitOpAt(i)
    /\ Len(log) \in {0, 7} \cup {9 + 6 * k : k \in 0..Len(log)}
    /\ Len(log) >= 7 =>
          log[1].arg = prf.CL /\ log[2].arg = prf.CR /\ log[3].arg = prf.CO
    /\ Len(log) >= 9 => log[8].arg = prf.CS

\* the challenges ch are the draws 4..7 of the transcript, in the order
\* rho, lambda, beta, delta
DrawnInOrder(log, ch) ==
    /\ ch.rho = log[4].arg /\ ch.lambda = log[5].arg
    /\ ch.beta = log[6].arg /\ ch.delta = log[7].arg

\* C24: ProveCircuit and VerifyCircuit perform the same sequence of calls
\* on the transcript: CL, CR, CO absorbed; rho, lambda, beta, delta drawn
\* in that order; CS absorbed; t drawn; then the rounds of WNLA on the same
\* transcript.  CS is absorbed after the four challenges and t is drawn
\* after CS is absorbed.
CircuitTranscriptOrder ==
    /\ pc # "start" => CircuitOrdered(fsP.log, proof)
    /\ pc \in {"committed", "coefficients", "blinded"} => DrawnInOrder(fsP.log, pw.ch)
    /\ pc = "blinded" => pw.t = fsP.log[9].arg
    /\ pc \in {"challenged", "reducing", "verifying", "verified"} =>
          CircuitOrdered(fsV.log, vw.given.proof)
    /\ pc \in {"challenged", "reducing"} => DrawnInOrder(fsV.log, vw.ch)
    /\ pc = "reducing" => vw.t = fsV.log[9].arg
    /\ (pc = "verified" /\ HonestRun) => Len(fsV.log) = Len(fsP.log)

\* VerifyCircuit returned on the honest proof after a round of WNLA
CircuitTranscriptOrderWitness ==
    /\ pc = "verified" /\ HonestRun
    /\ Len(fsV.log) >= 15 /\ Len(fsV.log) = Len(fsP.log)
    /\ fsV.log[8].arg = proof.CS

\* the point p was absorbed by one of the calls before call i
AbsorbedBefore(log, p, i) ==
    \E j \in 1..Min(i - 1, Len(log)) : log[j].op = "AddPoint" /\ log[j].arg = p

\* C25: every group element of the verifier's final equation is absorbed
\* into the transcript before the first challenge drawn after it is fixed:
\* the commitments V[k] and the points CL, CR, CO before rho (call 4), CS
\* before t (call 9), X_i and R_i of round i before its challenge y_i.
StatementBound ==
    pc \in {"challenged", "reducing", "verifying", "verified"} =>
        /\ \A k \in 1..Len(vw.given.Com) :
               AbsorbedBefore(fsV.log, vw.given.Com[k], 4)
        /\ AbsorbedBefore(fsV.log, vw.given.proof.CL, 4)
        /\ AbsorbedBefore(fsV.log, vw.given.proof.CR, 4)
        /\ AbsorbedBefore(fsV.log, vw.given.proof.CO, 4)
        /\ Len(fsV.log) >= 9 => AbsorbedBefore(fsV.log, vw.given.proof.CS, 9)
        /\ \A k \in 1..((Max(Len(fsV.log), 9) - 9) \div 6) :
               /\ AbsorbedBefore(fsV.log, vw.given.proof.WNLA.X[k], 9 + 6 * k)
               /\ AbsorbedBefore(fsV.log, vw.given.proof.WNLA.R[k], 9 + 6 * k)

\* the entries of a blinding vector at the Go indices of slots, in order
SlotsOf(r, slots) == [k \in 1..Len(slots) |-> r[slots[k] + 1]]

\* draws from + 1 .. from + n of the random stream
Draws(seed, from, n) == [k \in 1..n |-> MustRandScalar(seed, from + k)]

\* rs as innerArithmeticCircuitProve computes it from the coefficients f of
\* f'(t), the challenges and the blinding vectors (indices from 0)
RsFrom(f, beta, delta, ro, rl, rr, rv) ==
    [k \in 1..9 |->
        CASE k = 1 -> add(f.fm1, mul(beta, mul(delta, ro[2])))
          [] k = 2 -> mul(f.fm2, inv(beta))
          [] k = 3 -> sub(mul(add(f.f0, mul(delta, ro[1])), inv(beta)), rl[2])
          [] k = 4 -> add(mul(sub(f.f1, rl[1]), inv(beta)), add(rr[2], mul(delta, ro[3])))
          [] k = 5 -> add(mul(add(f.f2, rr[1]), inv(beta)), sub(mul(delta, ro[4]), rl[3]))
          [] k = 6 -> minus(mul(rv[1], inv(beta)))
          [] k = 7 -> add(mul(f.f4, inv(beta)), add(mul(delta, ro[6]), sub(rr[4], rl[5])))
          [] k = 8 -> add(mul(f.f5, inv(beta)), sub(add(rr[5], mul(delta, ro[7])), rl[6]))
          [] k = 9 -> add(mul(f.f6, inv(beta)), add(sub(mul(delta, ro[8]), rl[7]), rr[6]))]

\* C30: in every run of ProveCircuit the blinding vectors of 9 entries
\* have rl[3] = rl[7] = rl[8] = 0, ro[4] = ro[8] = 0,
\* rr[2] = rr[6] = rr[7] = rr[8] = 0 and rv[1..8] = 0 (indices from 0); the
\* other entries of ro, rl, rr are draws of the sampler, one each; rs is
\* not sampled: its 9 entries are computed from f_[-2..6], beta^-1, delta
\* and entries of rl, rr, ro, rv, and the draws after rr are ls and ns.
BlindingSlots ==
    /\ pc \in {"committed", "coefficients", "blinded"} =>
          /\ Len(pw.w.ro) = 9 /\ Len(pw.w.rl) = 9 /\ Len(pw.w.rr) = 9
          /\ SlotsOf(pw.w.rl, <<3, 7, 8>>) = zeroVector(3)
          /\ SlotsOf(pw.w.ro, <<4, 8>>) = zeroVector(2)
          /\ SlotsOf(pw.w.rr, <<2, 6, 7, 8>>) = zeroVector(4)
    /\ pc \in {"committed", "coefficients"} =>
          /\ SlotsOf(pw.w.ro, <<0, 1, 2, 3, 5, 6, 7>>) = Draws(pw.seed, pw.at - 18, 7)
          /\ SlotsOf(pw.w.rl, <<0, 1, 2, 4, 5, 6>>) = Draws(pw.seed, pw.at - 11, 6)
          /\ SlotsOf(pw.w.rr, <<0, 1, 3, 4, 5>>) = Draws(pw.seed, pw.at - 5, 5)
    /\ pc = "blinded" =>
          /\ Len(pw.b.rv) = 9 /\ Len(pw.b.rs) = 9
          /\ SlotsOf(pw.b.rv, <<1, 2, 3, 4, 5, 6, 7, 8>>) = zeroVector(8)
          /\ \E f \in {fPrime(public, pw.c, cl0(public, pw.ch.lambda, pw.ch.mu),
                               pw.ch.delta, pw.ch.mu, pw.b.v_, pw.b.v_1,
                               pw.b.ls, pw.b.ns, pw.w, pw.w)} :
                 pw.b.rs = RsFrom(f, pw.ch.beta, pw.ch.delta,
                                  pw.w.ro, pw.w.rl, pw.w.rr, pw.b.rv)

\* a step of the prover that draws ls and ns
ProveBlindDraws ==
    pc = "coefficients" /\ pc' = "blinded"

\* the draws that follow those of rr are ls and ns: none is spent on rs
BlindingDrawsOnly ==
    [][ProveBlindDraws =>
          /\ pw'.b.ls = Draws(pw.seed, pw.at, public.Nv)
          /\ pw'.b.ns = Draws(pw.seed, pw.at + public.Nv, public.Nm)]_vars

\* ProveCircuit computed rs, with sampled slots that are not zero
BlindingSlotsWitness ==
    /\ pc = "blinded"
    /\ \A k \in {1, 2, 3, 4, 6, 7, 8} : pw.w.ro[k] # 0
    /\ \A k \in {1, 2, 3, 5, 6, 7} : pw.w.rl[k] # 0
    /\ \A k \in {1, 2, 4, 5, 6} : pw.w.rr[k] # 0
    /\ pw.b.rv[1] # 0
    /\ \A k \in 1..9 : pw.b.rs[k] # 0

(***************************************************************************)
(* reciprocal.go: the reciprocal range proof.                              *)
(***************************************************************************)
CommitValue(p, v, s) == PointAdd(ScalarMult(p.G, v), ScalarMult(p.HVec[1], s))

CommitWitness(p, d, m, s) ==
    PointAdd(ScalarMult(p.HVec[1], s), vectorPointScalarMul(SliceFrom(p.HVec, 9), d \o m))

\* the poles committed on the generators of the multiplicities
CommitPoles_Overlapping(p, r, s) ==
    PointAdd(ScalarMult(p.HVec[1], s),
             vectorPointScalarMul(SliceFrom(p.HVec, 9 + p.Nd), r))

CommitPoles(p, r, s) ==
    PointAdd(ScalarMult(p.HVec[1], s),
             vectorPointScalarMul(SliceFrom(p.HVec, 9 + p.Nd + p.Np), r))

\* the circuit whose pole rows keep the 1 on their own pole
reciprocalCircuit_FullPoleRows(pub, e0, base) ==
    LET Nm == pub.Nd
        No == pub.Np
        Nv == pub.Nd + pub.Nd + pub.Np + 1
        Nl == Nv
        Nw == pub.Nd + pub.Nd + pub.Np
        Wm == [i \in 0..(Nm - 1) |-> [j \in 0..(Nw - 1) |->
                  IF j = i + Nm THEN minus(e0) ELSE bint(0)]]
        Wl == [i \in 0..(Nl - 1) |-> [j \in 0..(Nw - 1) |->
                  IF i = 0
                  THEN IF j < Nm THEN minus(pow(base, j)) ELSE bint(0)
                  ELSE IF i < Nm + 1
                  THEN IF j = i - 1 THEN bint(-1) ELSE bint(0)
                  ELSE IF i < Nm + No + 1
                  THEN IF j = (i - Nm - 1) + 2 * Nm THEN bint(-1) ELSE bint(0)
                  ELSE IF j < Nm THEN bint(0)
                  ELSE IF j < 2 * Nm
                  THEN bint(1)
                  ELSE minus(inv(add(e0, bint(j - 2 * Nm))))]]
    IN  [Nm |-> Nm, Nl |-> Nl, Nv |-> Nv, Nw |-> Nw, No |-> No, K |-> 1,
         G |-> pub.G,
         GVec |-> pub.GVec,
         HVec |-> pub.HVec,
         Wm |-> [i \in 1..Nm |-> [j \in 1..Nw |-> Wm[i - 1][j - 1]]],
         Wl |-> [i \in 1..Nl |-> [j \in 1..Nw |-> Wl[i - 1][j - 1]]],
         Am |-> oneVector(Nm),
         Al |-> zeroVector(Nl),
         Fl |-> TRUE,
         Fm |-> FALSE,
         F |-> [typ |-> PartitionLL, below |-> No],
         GVec_ |-> pub.GVec_,
         HVec_ |-> pub.HVec_]

\* the circuit ProveRange and VerifyRange build from the challenge e, by
\* lines that differ in the value of base only.  Rows and columns are
\* counted from 0 as in the source.
reciprocalCircuit(pub, e0, base) ==
    LET Nm == pub.Nd
        No == pub.Np
        Nv == pub.Nd + pub.Nd + pub.Np + 1
        Nl == Nv
        Nw == pub.Nd + pub.Nd + pub.Np
        Wm == [i \in 0..(Nm - 1) |-> [j \in 0..(Nw - 1) |->
                  IF j = i + Nm THEN minus(e0) ELSE bint(0)]]
        Wl == [i \in 0..(Nl - 1) |-> [j \in 0..(Nw - 1) |->
                  IF i = 0
                  THEN IF j < Nm THEN minus(pow(base, j)) ELSE bint(0)
                  ELSE IF i < Nm + 1
                  THEN IF j = i - 1 THEN bint(-1) ELSE bint(0)
                  ELSE IF i < Nm + No + 1
                  THEN IF j = (i - Nm - 1) + 2 * Nm THEN bint(-1) ELSE bint(0)
                  ELSE IF j < Nm THEN bint(0)
                  ELSE IF j < 2 * Nm
                  THEN IF j = (i - Nm - No - 1) + Nm THEN bint(0) ELSE bint(1)
                  ELSE minus(inv(add(e0, bint(j - 2 * Nm))))]]
    IN  [Nm |-> Nm, Nl |-> Nl, Nv |-> Nv, Nw |-> Nw, No |-> No, K |-> 1,
         G |-> pub.G,
         GVec |-> pub.GVec,
         HVec |-> pub.HVec,
         Wm |-> [i \in 1..Nm |-> [j \in 1..Nw |-> Wm[i - 1][j - 1]]],
         Wl |-> [i \in 1..Nl |-> [j \in 1..Nw |-> Wl[i - 1][j - 1]]],
         Am |-> oneVector(Nm),
         Al |-> zeroVector(Nl),
         Fl |-> TRUE,
         Fm |-> FALSE,
         F |-> [typ |-> PartitionLL, below |-> No],
         GVec_ |-> pub.GVec_,
         HVec_ |-> pub.HVec_]

\* ProveRange as far as its call of ProveCircuit; the draws are at+1, at+2
ProveRange(pub, fs, priv, seed, at) ==
    LET vCom == CommitValue(pub, priv.X, priv.S)
        mBlind == MustRandScalar(seed, at + 1)
        rBlind == MustRandScalar(seed, at + 2)
        Call(mCom, r1, e0, r, circuit) ==
            LET rCom == CommitPoles(pub, r, rBlind)
                v == <<priv.X>> \o priv.Digits \o priv.M \o r
                prv == [V |-> <<v>>,
                        Sv |-> <<add(add(mBlind, priv.S), rBlind)>>,
                        Wl |-> priv.Digits,
                        Wr |-> r,
                        Wo |-> priv.M]
            IN  [e |-> e0, circuit |-> circuit, prv |-> prv,
                 V |-> CommitCircuit(circuit, prv.V[1], prv.Sv[1]),
                 MCom |-> mCom, RCom |-> rCom, fs |-> r1.fs]
    IN  The({ The({ The({ The({ Call(mCom, r1, r1.ch[1], r, circuit)
                              : circuit \in {reciprocalCircuit(pub, r1.ch[1], bint(pub.Np))} })
                        : r \in {[j \in 1..pub.Nd |-> inv(add(priv.Digits[j], r1.ch[1]))]} })
                  : r1 \in {GetChallenges(AddPoint(fs, PointAdd(vCom, mCom)), 1)} })
            : mCom \in {CommitWitness(pub, priv.Digits, priv.M, mBlind)} })

\* VerifyRange that absorbs VCom alone
VerifyRange_ValueOnly(pub, VCom, fs, prf) ==
    LET VMCom == PointAdd(VCom, prf.MCom)
    IN  The({ [e |-> r1.ch[1],
              circuit |-> reciprocalCircuit(pub, r1.ch[1], bint(16)),
              V |-> <<PointAdd(VMCom, prf.RCom)>>,
              fs |-> r1.fs]
            : r1 \in {GetChallenges(AddPoint(fs, VCom), 1)} })

\* VerifyRange as far as its call of VerifyCircuit
VerifyRange(pub, VCom, fs, prf) ==
    LET VMCom == PointAdd(VCom, prf.MCom)
    IN  The({ [e |-> r1.ch[1],
              circuit |-> reciprocalCircuit(pub, r1.ch[1], bint(16)),
              V |-> <<PointAdd(VMCom, prf.RCom)>>,
              fs |-> r1.fs]
            : r1 \in {GetChallenges(AddPoint(fs, VMCom), 1)} })

(***************************************************************************)
(* The reciprocal range proof end to end, set up as in reciprocal_test.go: *)
(* the caller commits to the value, ProveRange runs with a fresh           *)
(* transcript, then VerifyRange runs with a fresh transcript on the proof  *)
(* and the value commitment, or on a modification of them.  rangeP and     *)
(* rangeV hold what ProveRange and VerifyRange keep while ProveCircuit and *)
(* VerifyCircuit run.                                                      *)
(***************************************************************************)
\* (Nd, Np) of the statements
RangeSizes == {<<1, 2>>, <<2, 2>>, <<1, 16>>}

\* the value is the digit sum plus one of these
RangeOffsets == {0, 1}

TestDigits(Nd, Np, w) == [j \in 1..Nd |-> bint((w + j - 1) % Np)]

\* M[i] is the number of digits equal to i
Multiplicities(d, Np) ==
    [i \in 1..Np |-> bint(Cardinality({j \in 1..Len(d) : d[j] = i - 1}))]

RECURSIVE DigitSum(_, _, _)
DigitSum(d, Np, k) ==
    IF k = 0 THEN 0 ELSE add(DigitSum(d, Np, k - 1), mul(d[k], Exp(bint(Np), k - 1)))

NewReciprocalPublic(wnla, Nd, Np) ==
    [G |-> wnla.G,
     GVec |-> SliceTo(wnla.GVec, Nd),
     HVec |-> SliceTo(wnla.HVec, 2 * Nd + Np + 1 + 9),
     Nd |-> Nd,
     Np |-> Np,
     GVec_ |-> SliceFrom(wnla.GVec, Nd),
     HVec_ |-> SliceFrom(wnla.HVec, 2 * Nd + Np + 1 + 9)]

InitRange ==
    /\ oracle \in 0..(MaxOracle - 1)
    /\ \E sz \in RangeSizes, seed \in 0..MaxSeed, w \in 1..MaxWitness, off \in RangeOffsets :
          LET lLen == powerOfTwo(2 * sz[1] + sz[2] + 1 + 9)
              d == TestDigits(sz[1], sz[2], w)
          IN  /\ public = NewReciprocalPublic(NewWeightNormLinearPublic(lLen, sz[1], seed),
                                              sz[1], sz[2])
              /\ private = [X |-> add(DigitSum(d, sz[2], sz[1]), off),
                            M |-> Multiplicities(d, sz[2]),
                            Digits |-> d,
                            S |-> MustRandScalar(seed, DrawsOfPublic(lLen, sz[1]) + 1)]
              /\ pw = [seed |-> seed, at |-> DrawsOfPublic(lLen, sz[1]) + 1]
    /\ fsP = NewKeccakFS
    /\ fsV = NewKeccakFS
    /\ pc = "start"
    /\ Com = None /\ proof = None /\ vw = None /\ err = None
    /\ rangeP = None /\ rangeV = None

\* the caller: VCom = public.CommitValue(private.X, private.S) and the call
\* of ProveRange, as far as the challenges rho .. delta of ProveCircuit
RangeProveStart ==
    /\ pc = "start"
    /\ Com' = CommitValue(public, private.X, private.S)
    /\ rangeP' = ProveRange(public, fsP, private, pw.seed, pw.at)
    /\ \E r \in {proveCircuitCommit(rangeP'.circuit, rangeP'.fs, rangeP'.prv,
                                      pw.seed, pw.at + 2)} :
           /\ proof' = [CL |-> r.w.Cl, CR |-> r.w.Cr, CO |-> r.w.Co]
           /\ pw' = [seed |-> pw.seed, at |-> pw.at + 2 + 18, w |-> r.w, ch |-> r.ch]
           /\ fsP' = r.ch.fs
    /\ pc' = "committed"
    /\ UNCHANGED <<rangeV, oracle, fsV, public, private, vw, err>>

RangeProveCoefficients == ProveCoefficients(rangeP.circuit)

RangeProveBlind == ProveBlind(rangeP.circuit, rangeP.prv)

RangeProveReduce == ProveReduce(rangeP.circuit)

\* ProveCircuit returns and ProveRange adds MCom and RCom
RangeProveBase ==
    /\ pc = "proving"
    /\ ProveWNLAIsBase(pw.l, pw.n)
    /\ proof' = [CL |-> proof.CL, CR |-> proof.CR, CO |-> proof.CO, CS |-> proof.CS,
                 WNLA |-> [R |-> pw.R, X |-> pw.X, L |-> pw.l, N |-> pw.n],
                 MCom |-> rangeP.MCom, RCom |-> rangeP.RCom]
    /\ pc' = "proved"
    /\ UNCHANGED <<rangeP, rangeV, oracle, fsP, fsV, public, private, Com, pw, vw, err>>

\* prf with one of its points replaced by another point
SinglePointReplaced(prf) ==
    {[prf EXCEPT !.CL = PointAdd(prf.CL, 1)], [prf EXCEPT !.CR = PointAdd(prf.CR, 1)],
     [prf EXCEPT !.CO = PointAdd(prf.CO, 1)], [prf EXCEPT !.CS = PointAdd(prf.CS, 1)],
     [prf EXCEPT !.MCom = PointAdd(prf.MCom, 1)], [prf EXCEPT !.RCom = PointAdd(prf.RCom, 1)]}
    \cup (IF Len(prf.WNLA.X) > 0 THEN {[prf EXCEPT !.WNLA.X = Bump(prf.WNLA.X, 1)]} ELSE {})

\* the proofs a verifier may be handed in place of prf
HandedRangeProofs(prf) ==
    {prf} \cup SinglePointReplaced(prf)
    \cup {[prf EXCEPT !.WNLA.R = Append(prf.WNLA.R, 1)]}

\* the call of VerifyRange, as far as the challenges ro .. delta of
\* VerifyCircuit
RangeVerifyStart ==
    /\ pc = "proved"
    /\ \E prf \in HandedRangeProofs(proof), VCom \in {Com, PointAdd(Com, 1)} :
          /\ rangeV' = [call |-> VerifyRange(public, VCom, fsV, prf), VCom |-> VCom,
                         from |-> None]
          /\ \E ch \in {circuitChallenges(rangeV'.call.fs, prf.CL, prf.CR, prf.CO)} :
                 /\ vw' = [given |-> [proof |-> prf, Com |-> rangeV'.call.V], ch |-> ch]
                 /\ fsV' = ch.fs
    /\ pc' = "challenged"
    /\ UNCHANGED <<rangeP, oracle, fsP, public, private, Com, proof, pw, err>>

RangeVerifyCoefficients == VerifyCoefficients(rangeV.call.circuit)

RangeVerifyReduce == VerifyReduce(rangeV.call.circuit)

NextRange ==
    \/ RangeProveStart \/ RangeProveCoefficients \/ RangeProveBlind
    \/ RangeProveReduce \/ WNLAProveFold \/ RangeProveBase
    \/ RangeVerifyStart \/ RangeVerifyCoefficients \/ RangeVerifyReduce
    \/ WNLAVerifyLength \/ WNLAVerifyBase \/ WNLAVerifyFold

SpecRange == InitRange /\ [][NextRange]_vars

(***************************************************************************)
(* Properties of the reciprocal range proof                                *)
(***************************************************************************)
\* VerifyRange was handed what ProveRange returned and the commitment of
\* the caller
RangeHonestRun == vw.given.proof = proof /\ rangeV.VCom = Com

\* X = sum_j Digits[j]*Np^j
ValueIsDigitSum == private.X = DigitSum(private.Digits, public.Np, public.Nd)

\* C3: reciprocal range completeness: for every Nd and Np, every value
\* X = sum_j Digits[j]*Np^j with digits in [0, Np) and their multiplicities
\* M, and every blinding S, VerifyRange with a fresh transcript returns nil
\* on CommitValue(X, S) and the proof of ProveRange.
RangeCompleteness ==
    (pc = "verified" /\ RangeHonestRun /\ ValueIsDigitSum) => err = ErrNil

\* C4: the range proof is bound to the committed value: the proof of
\* ProveRange is accepted against CommitValue(X, S) if and only if
\* X = sum_j Digits[j]*Np^j.
RangeBoundToValue ==
    (pc = "verified" /\ RangeHonestRun) => (err = ErrNil <=> ValueIsDigitSum)

\* C15: ProveRange and VerifyRange build the same circuit: for every
\* (Nd, Np) and every challenge e, the circuit of VerifyRange (Nm, No, Nv,
\* Nl, Nw, Wm, Am, Wl, Al, Fl, Fm, F) is the one of ProveRange, and in both
\* the value row is Wl[0][i] = -(Np^i) for i < Nd.
RangeSameCircuit ==
    (rangeP # None /\ rangeV # None /\ rangeV.call.e = rangeP.e) =>
        /\ rangeV.call.circuit = rangeP.circuit
        /\ \A i \in 0..(public.Nd - 1) :
              /\ rangeP.circuit.Wl[1][i + 1] = minus(pow(bint(public.Np), i))
              /\ rangeV.call.circuit.Wl[1][i + 1] = minus(pow(bint(public.Np), i))

(***************************************************************************)
(* VerifyRange on proofs it accepts and on the same proofs with one point  *)
(* replaced.  VerifyWNLA compares Commit(L, N) with the folded commitment  *)
(* whatever the lengths of L and N are, so a prover may stop folding after *)
(* any number of rounds and send the vectors it holds; the proof           *)
(* ProveRange returns is the one that stops where ProveWNLA does.          *)
(***************************************************************************)
\* a proof whose argument stops after the rounds made so far
RangeProveOpen ==
    /\ pc = "proving"
    /\ proof' = [CL |-> proof.CL, CR |-> proof.CR, CO |-> proof.CO, CS |-> proof.CS,
                 WNLA |-> [R |-> pw.R, X |-> pw.X, L |-> pw.l, N |-> pw.n],
                 MCom |-> rangeP.MCom, RCom |-> rangeP.RCom]
    /\ pc' = "proved"
    /\ UNCHANGED <<rangeP, rangeV, oracle, fsP, fsV, public, private, Com, pw, vw, err>>

\* VerifyRange returned nil on a proof; it is called again with a fresh
\* transcript and the same value commitment on that proof with one point
\* replaced
RangeVerifyCorrupted ==
    /\ pc = "verified"
    /\ err = ErrNil
    /\ rangeV.from = None
    /\ \E prf \in SinglePointReplaced(vw.given.proof) :
          /\ rangeV' = [call |-> VerifyRange(public, rangeV.VCom, NewKeccakFS, prf),
                         VCom |-> rangeV.VCom, from |-> vw.given.proof]
          /\ \E ch \in {circuitChallenges(rangeV'.call.fs, prf.CL, prf.CR, prf.CO)} :
                 /\ vw' = [given |-> [proof |-> prf, Com |-> rangeV'.call.V], ch |-> ch]
                 /\ fsV' = ch.fs
    /\ pc' = "challenged"
    /\ err' = None
    /\ UNCHANGED <<rangeP, oracle, fsP, public, private, Com, proof, pw>>

NextCorruption ==
    \/ RangeProveStart \/ RangeProveCoefficients \/ RangeProveBlind
    \/ RangeProveReduce \/ WNLAProveFold \/ RangeProveOpen
    \/ RangeVerifyStart \/ RangeVerifyCoefficients \/ RangeVerifyReduce
    \/ WNLAVerifyLength \/ WNLAVerifyBase \/ WNLAVerifyFold
    \/ RangeVerifyCorrupted

SpecCorruption == InitRange /\ [][NextCorruption]_vars

HexBase == 16

HexDigits == 16

LimbBase == 65536

UInt64Mod16(x) == x[1] % HexBase

\* x / 16 without the bits that move from one limb to the next
UInt64Div16_NoCarry(x) == [i \in 1..4 |-> x[i] \div HexBase]

UInt64Div16(x) ==
    [i \in 1..4 |->
        (x[i] \div HexBase)
          + (IF i < 4 THEN (x[i + 1] % HexBase) * (LimbBase \div HexBase) ELSE 0)]

\* the loop of UInt64Hex from index i on
RECURSIVE UInt64HexFrom(_, _, _)
UInt64HexFrom(resp, x, i) ==
    IF i = HexDigits THEN resp
    ELSE UInt64HexFrom(Append(resp, UInt64Mod16(x)), UInt64Div16(x), i + 1)

UInt64Hex(x) == UInt64HexFrom(<<>>, x, 0)

\* the loop of HexMapping from the k-th digit on
RECURSIVE HexMappingFrom(_, _, _)
HexMappingFrom(resp, digits, k) ==
    IF k > Len(digits) THEN resp
    ELSE HexMappingFrom([resp EXCEPT ![digits[k] + 1] = add(resp[digits[k] + 1], bint(1))],
                        digits, k + 1)

HexMapping(digits) == HexMappingFrom(zeroVector(HexDigits), digits, 1)

\* the limbs of the values converted: those of 0xab4f0540ab4f0540, of 0,
\* of 1 and of 2^64 - 1
NumberLimbs == {0, 1, 1344, 43855, 65535}

\* digit lists handed to HexMapping by a caller
NumberDigitLists ==
    { [j \in 1..n |-> (a * j + b) % HexBase] : n \in 0..3, a \in {0, 1, 5}, b \in {0, 7, 15} }

InitNumber ==
    /\ \/ /\ private \in { [x |-> <<w0, w1, w2, w3>>]
                            : w0 \in NumberLimbs, w1 \in NumberLimbs,
                              w2 \in NumberLimbs, w3 \in NumberLimbs }
          /\ proof = None
          /\ pc = "number"
       \/ /\ private \in { [digits |-> d] : d \in NumberDigitLists }
          /\ proof = [digits |-> private.digits, m |-> None]
          /\ pc = "digits"
    /\ oracle = 0
    /\ fsP = None /\ fsV = None /\ public = None /\ Com = None
    /\ pw = None /\ vw = None /\ err = None
    /\ rangeP = None /\ rangeV = None

NumberUInt64Hex ==
    /\ pc = "number"
    /\ proof' = [digits |-> UInt64Hex(private.x), m |-> None]
    /\ pc' = "digits"
    /\ UNCHANGED <<oracle, fsP, fsV, public, private, Com, pw, vw, err, rangeP, rangeV>>

NumberHexMapping ==
    /\ pc = "digits"
    /\ proof' = [proof EXCEPT !.m = HexMapping(proof.digits)]
    /\ pc' = "mapped"
    /\ UNCHANGED <<oracle, fsP, fsV, public, private, Com, pw, vw, err, rangeP, rangeV>>

NextNumber == NumberUInt64Hex \/ NumberHexMapping

SpecNumber == InitNumber /\ [][NextNumber]_vars

\* C14: for every uint64 x, UInt64Hex(x) has exactly 16 entries, each in
\* [0,16), least significant first, with sum_j digits[j]*16^j = x (stated
\* limb by limb: four digits below 16 make a value below 2^16); and for
\* every digit list with entries in [0,16), HexMapping(digits) has 16
\* entries, m[i] being the number of digits equal to i, so that the
\* entries of m sum to len(digits).
HexDecomposition ==
    /\ (pc \in {"digits", "mapped"} /\ "x" \in DOMAIN private) =>
          /\ Len(proof.digits) = 16
          /\ \A j \in 1..16 : proof.digits[j] \in 0..15
          /\ \A k \in 1..4 :
                private.x[k] = proof.digits[4 * k - 3]
                                + proof.digits[4 * k - 2] * 16
                                + proof.digits[4 * k - 1] * 256
                                + proof.digits[4 * k] * 4096
    /\ pc = "mapped" =>
          /\ DOMAIN proof.m = 1..16
          /\ \A i \in 1..16 :
                proof.m[i] = Cardinality({j \in 1..Len(proof.digits) : proof.digits[j] = i - 1})
          /\ SumTo(proof.m, 16) = Len(proof.digits)

\* TestUInt64Hex: the digits and multiplicities of 0xab4f0540ab4f0540
HexDecompositionWitness ==
    /\ pc = "mapped"
    /\ "x" \in DOMAIN private
    /\ private.x = <<1344, 43855, 1344, 43855>>
    /\ proof.digits = <<0, 4, 5, 0, 15, 4, 11, 10, 0, 4, 5, 0, 15, 4, 11, 10>>
    /\ proof.m = <<4, 0, 0, 0, 4, 2, 0, 0, 0, 0, 2, 2, 0, 0, 0, 2>>

(***************************************************************************)
(* The transcript of the range proof                                       *)
(***************************************************************************)
\* the calls of a transcript from call i on
LogFrom(log, i) == [j \in 1..(Len(log) - i + 1) |-> log[j + i - 1]]

\* the first two calls of a transcript: the point p absorbed, then the
\* challenge e drawn, and a point absorbed next
ChallengeAfterOneAbsorb(log, p, e0) ==
    /\ log[1].op = "AddPoint" /\ log[1].arg = p
    /\ log[2].op = "GetChallenge" /\ log[2].arg = e0
    /\ log[3].op = "AddPoint"

\* C26: in ProveRange and VerifyRange the challenge e is the first
\* challenge of the transcript, drawn after exactly one absorb, of the
\* point VCom + MCom; the poles r_j = 1/(Digits[j] + e) and RCom are
\* computed from it; prover and verifier of an honest run absorb the same
\* point and derive the same e; and the circuit argument runs on the same
\* transcript.
ReciprocalChallengeFirst ==
    /\ pc # "start" =>
          /\ ChallengeAfterOneAbsorb(fsP.log, PointAdd(Com, rangeP.MCom), rangeP.e)
          /\ rangeP.prv.Wr =
                 [j \in 1..public.Nd |-> inv(add(private.Digits[j], fsP.log[2].arg))]
          /\ pc \in {"committed", "coefficients"} =>
                 rangeP.RCom = CommitPoles(public, rangeP.prv.Wr,
                                           MustRandScalar(pw.seed, pw.at - 18))
          /\ CircuitOrdered(LogFrom(fsP.log, 3), proof)
    /\ pc \in {"challenged", "reducing", "verifying", "verified"} =>
          /\ ChallengeAfterOneAbsorb(fsV.log,
                                     PointAdd(rangeV.VCom, vw.given.proof.MCom),
                                     rangeV.call.e)
          /\ CircuitOrdered(LogFrom(fsV.log, 3), vw.given.proof)
    /\ (pc \in {"challenged", "reducing", "verifying", "verified"} /\ RangeHonestRun) =>
          /\ fsV.log[1] = fsP.log[1]
          /\ fsV.log[2] = fsP.log[2]
          /\ rangeV.call.e = rangeP.e

\* VerifyRange drew e on the honest proof of a statement with two digits
ReciprocalChallengeFirstWitness ==
    /\ pc = "challenged" /\ RangeHonestRun
    /\ public.Nd = 2
    /\ rangeV.call.e = rangeP.e
    /\ fsV.log[2].arg = rangeP.e
    /\ rangeP.prv.Wr[2] = inv(add(private.Digits[2], rangeP.e))

(***************************************************************************)
(* The commitments of the range proof                                      *)
(***************************************************************************)
\* the vector v = [X, Digits, M, r] of ProveRange
RangeVector == <<private.X>> \o private.Digits \o private.M \o rangeP.prv.Wr

\* C27: the point VerifyRange hands to VerifyCircuit, VCom + MCom + RCom,
\* equals CommitCircuit(v, S + mBlind + rBlind) for v = [X, Digits, M, r],
\* VCom = CommitValue(X, S), MCom = CommitWitness(Digits, M, mBlind) and
\* RCom = CommitPoles(r, rBlind).
RangeCommitmentsAdd ==
    /\ pc \in {"committed", "coefficients"} =>
          /\ rangeP.MCom = CommitWitness(public, private.Digits, private.M,
                                         MustRandScalar(pw.seed, pw.at - 19))
          /\ rangeP.RCom = CommitPoles(public, rangeP.prv.Wr,
                                       MustRandScalar(pw.seed, pw.at - 18))
          /\ rangeP.prv.Sv[1] = add(add(MustRandScalar(pw.seed, pw.at - 19), private.S),
                                    MustRandScalar(pw.seed, pw.at - 18))
          /\ PointAdd(PointAdd(Com, rangeP.MCom), rangeP.RCom)
                 = CommitCircuit(rangeP.circuit, RangeVector, rangeP.prv.Sv[1])
    /\ (pc \in {"challenged", "reducing", "verifying", "verified"} /\ RangeHonestRun) =>
          /\ rangeV.call.V = <<PointAdd(PointAdd(Com, proof.MCom), proof.RCom)>>
          /\ rangeV.call.V[1]
                 = CommitCircuit(rangeV.call.circuit, RangeVector, rangeP.prv.Sv[1])

\* VerifyRange called VerifyCircuit on the honest proof of a statement with
\* two digits, none of whose poles is zero
RangeCommitmentsAddWitness ==
    /\ pc = "challenged" /\ RangeHonestRun
    /\ public.Nd = 2
    /\ \A j \in 1..2 : rangeP.prv.Wr[j] # 0
    /\ rangeV.call.V[1] = CommitCircuit(rangeV.call.circuit, RangeVector, rangeP.prv.Sv[1])

(***************************************************************************)
(* The circuit of the range proof                                          *)
(***************************************************************************)
\* no e + i is zero for i in [0, Np)
PolesDefined == \A i \in 0..(public.Np - 1) : add(rangeP.e, bint(i)) # 0

\* C28: the circuit ProveRange builds encodes the reciprocal argument: for
\* digits in [0, Np), their multiplicities M, X = sum_j Digits[j]*Np^j and
\* a challenge e with e + i # 0 for all i in [0, Np), the witness
\* wL = Digits, wR = r, wO = M, v = [X, Digits, M, r] with
\* r_j = 1/(Digits[j] + e) satisfies Wm*w + Am = wL . wR, that is
\* r_j*(Digits[j] + e) = 1, and every row of Wl*w + v + Al = 0.
ReciprocalCircuitEncodes ==
    (pc # "start" /\ ValueIsDigitSum /\ PolesDefined) =>
        /\ rangeP.prv.Wl = private.Digits
        /\ rangeP.prv.Wo = private.M
        /\ rangeP.prv.V = <<RangeVector>>
        /\ \A j \in 1..public.Nd :
               /\ rangeP.prv.Wr[j] = inv(add(private.Digits[j], rangeP.e))
               /\ mul(rangeP.prv.Wr[j], add(private.Digits[j], rangeP.e)) = 1
        /\ ConstraintM(rangeP.circuit, rangeP.prv) = zeroVector(public.Nd)
        /\ ConstraintL(rangeP.circuit, rangeP.prv) = zeroVector(rangeP.circuit.Nl)
        /\ CircuitSatisfied(rangeP.circuit, rangeP.prv)

\* ProveRange built the circuit for two digits of a value that is their
\* digit sum, with a challenge none of whose poles is undefined
ReciprocalCircuitEncodesWitness ==
    /\ pc = "committed" /\ ValueIsDigitSum /\ PolesDefined
    /\ public.Nd = 2
    /\ private.Digits[1] # private.Digits[2]
    /\ CircuitSatisfied(rangeP.circuit, rangeP.prv)

====
